---- MODULE Spec2Model ----
(***************************************************************************)
(* A model of the news-intelligence backend of lazy-investor:              *)
(*   - RateLimiter (app/workers/news_analyzer.py), sequentially and with   *)
(*     interleaved callers;                                                *)
(*   - ArticleAnalysisCache (app/services/analysis/article_analyzer.py);   *)
(*   - the background run analyze_watchlist_stocks and the interactive     *)
(*     analysis path, over the tables of app/db/models.py.                 *)
(* Time is integral: one unit of `clock` is one second of time.time().     *)
(***************************************************************************)
EXTENDS Integers, Sequences, FiniteSets, TLC

VARIABLES
    \* ---- RateLimiter ----
    max_requests,   \* RateLimiter.max_requests
    time_window,    \* RateLimiter.time_window
    requests,       \* RateLimiter.requests, the deque of admission timestamps
    clock,          \* time.time()
    rl_log,         \* history: every timestamp ever appended to requests
    rl_last,        \* history: what the last sequential wait_if_needed() did
    rl_calls,       \* number of wait_if_needed() calls started
    rl_stats,       \* history: what the last get_stats() returned, and when
    rl_pc,          \* per caller: position inside wait_if_needed()
    rl_now,         \* per caller: the local `now`
    rl_wake,        \* per caller: the time at which time.sleep() returns
    \* ---- ArticleAnalysisCache ----
    ttl,            \* ArticleAnalysisCache._ttl
    last_analysis,  \* the last analyze_single_article call made on its own
    cache_thr,      \* per request thread: where it is inside a cache call, its
                    \* locals, and how its last call ended
    cache,          \* ArticleAnalysisCache._cache: key -> (analysis, timestamp)
    cache_ops,      \* history: the last two cache calls, latest last
    cache_n,        \* number of cache calls made
    \* ---- storage (app/db/models.py) and the background run ----
    dt_now,         \* datetime.now(), in days; day 0 is a Monday
    watchlist,      \* the symbols of the Watchlist rows
    news_call,      \* a get_company_news() call: its inputs, then its result
    signal_resp,    \* the answer to the last mark_signal_read request
    stream,         \* an analyze_stock_stream call: its inputs, then its events
    articles,       \* the AnalyzedArticle rows
    signals,        \* the Signal rows
    summaries,      \* the WeeklySummary rows
    db_session,     \* state of the run's Session: "closed", "ok", "needs_rollback"
    autoflush,      \* whether SessionLocal flushes pending rows before a query:
                    \* "on" or "off"
    run,            \* control state of the background run (run_analysis_job)
    \* ---- history ----
    upstream,       \* calls made toward the market-data source, admitted or not
    tokens,         \* admissions of the background run not yet used by a call
    classified,     \* per (symbol, title): times the classifier was invoked
    pass,           \* the symbol pass under way or last ended
    prev_news,      \* per symbol: the news list of its previous pass
    steps,          \* symbol passes and interactive requests started so far
    sched           \* the AsyncIOScheduler: its jobs, their instances, the tasks of
                    \* the event loop and the executions under way

rlVars == <<max_requests, time_window, rl_stats, requests, clock, rl_log, rl_last,
            rl_calls, rl_pc, rl_now, rl_wake>>

cacheVars == <<ttl, last_analysis, cache_thr, cache, cache_ops, cache_n>>

dbVars == <<watchlist, news_call, signal_resp, stream, articles, signals, summaries, db_session, autoflush>>

histVars == <<upstream, tokens, classified, pass, prev_news, steps>>

pipeVars == <<dt_now, dbVars, run, histVars, sched>>

vars == <<rlVars, cacheVars, pipeVars>>

None == "None"

(***************************************************************************)
(* Bounds of the model                                                     *)
(***************************************************************************)
MaxRequestsCfg == 2     \* max_requests is drawn from 0..MaxRequestsCfg
MaxWindowCfg == 2       \* time_window is drawn from 0..MaxWindowCfg
MaxClock == 6           \* the clock stops at MaxClock
MaxCalls == 4           \* wait_if_needed() calls per behaviour
MaxLag == 1             \* seconds that may pass between two clock reads of a call
MaxTtlCfg == 2          \* ttl is drawn from 1..MaxTtlCfg
MaxCacheOps == 3        \* cache calls per behaviour
MaxSteps == 2           \* symbol passes plus requests served per behaviour
MaxDay == 1             \* datetime.now() stops at day MaxDay
MaxScanned == 2         \* rows in storage when detect_signals is run on its own
MaxWeekRows == 4        \* rows in storage when update_weekly_summary is run on its own
MaxNewsItems == 2       \* items a news source or the news cache returns
MaxStreamItems == 2     \* items of the news list analyze_stock_stream is given
MaxFires == 2           \* times the interval of the periodic job elapses
MaxLate == 2            \* seconds of lateness told apart

\* `+ 1  # +1 for safety margin`
SafetyMargin == 1

\* vnstock_rate_limiter = RateLimiter(max_requests=20, time_window=60)
DefaultMaxRequests == 20
DefaultTimeWindow == 60

Callers == {"background", "interactive"}

(***************************************************************************)
(* RateLimiter: the pieces of wait_if_needed()                             *)
(***************************************************************************)

\* the loop test `self.requests and self.requests[0] < now - self.time_window`
ExpiredHeadStrict(q, now) == q # <<>> /\ Head(q) <= now - time_window
ExpiredHead(q, now) == q # <<>> /\ Head(q) < now - time_window

\* the whole loop `while <test>: self.requests.popleft()`
RECURSIVE EvictOld(_, _)
EvictOld(q, now) == IF ExpiredHead(q, now) THEN EvictOld(Tail(q), now) ELSE q

\* `len(self.requests) >= self.max_requests`
LimitReachedOffByOne(q) == Len(q) > max_requests
LimitReachedEarly(q) == Len(q) >= max_requests - 1
LimitReached(q) == Len(q) >= max_requests

\* `self.time_window - (now - self.requests[0]) + 1`
WaitTimeNoMargin(q, now) == time_window - (now - Head(q))
WaitTimeSinceOldest(q, now) == time_window + (now - Head(q)) + SafetyMargin
WaitTime(q, now) == time_window - (now - Head(q)) + SafetyMargin

\* history record of a sequential call: none yet, returned, or raised
NoCall ==
    [outcome |-> "none", now |-> 0, remaining |-> 0, blocked |-> FALSE,
     wait |-> 0, oldest |-> 0, resumed |-> 0, recorded |-> 0]

\* get_stats(): `now` is the clock, q the deque; seen is the number of
\* admissions recorded so far
NoStats ==
    [called |-> FALSE, now |-> 0, seen |-> 0, requests_in_window |-> 0,
     max_requests |-> 0, time_window |-> 0, remaining |-> 0]

RecentExclusive(q, now) == {i \in 1..Len(q) : q[i] > now - time_window}
Recent(q, now) == {i \in 1..Len(q) : q[i] >= now - time_window}

GetStats(q, now) ==
    LET recent == Cardinality(Recent(q, now))
    IN  [called |-> TRUE, now |-> now, seen |-> Len(rl_log),
         requests_in_window |-> recent, max_requests |-> max_requests,
         time_window |-> time_window, remaining |-> max_requests - recent]

\* RateLimiter.__init__ with the given arguments
RateLimiterInit(mr, tw) ==
    /\ max_requests = mr
    /\ time_window = tw
    /\ requests = <<>>
    /\ clock = 0
    /\ rl_log = <<>>
    /\ rl_last = NoCall
    /\ rl_stats = NoStats
    /\ rl_calls = 0
    /\ rl_pc = [p \in Callers |-> "idle"]
    /\ rl_now = [p \in Callers |-> 0]
    /\ rl_wake = [p \in Callers |-> 0]

\* time passes
Tick ==
    /\ clock < MaxClock
    /\ clock' = clock + 1
    /\ UNCHANGED <<max_requests, time_window, rl_stats, requests, rl_log, rl_last,
                   rl_calls, rl_pc, rl_now, rl_wake, cacheVars, pipeVars>>

(***************************************************************************)
(* wait_if_needed() called by one caller at a time: the whole call is one  *)
(* action.  `now` is the clock on entry; time.sleep(wait_time) returns at  *)
(* now + wait_time or later; the timestamp appended is a later clock read. *)
(***************************************************************************)
Returned(now, remaining, blocked, wait, oldest, resumed, at) ==
    [outcome |-> "returned", now |-> now, remaining |-> remaining,
     blocked |-> blocked, wait |-> wait, oldest |-> oldest,
     resumed |-> resumed, recorded |-> at]

Raised(now, remaining) ==
    [outcome |-> "IndexError", now |-> now, remaining |-> remaining,
     blocked |-> FALSE, wait |-> 0, oldest |-> 0, resumed |-> now,
     recorded |-> now]

\* the body of wait_if_needed(); `lags` are the delays a clock read may show
WaitIfNeeded(lags) ==
    /\ rl_calls' = rl_calls + 1
    /\ LET t0 == clock
           q1 == EvictOld(requests, t0)
       IN  IF LimitReached(q1)
           THEN IF q1 = <<>>
                THEN \* self.requests[0] on an empty deque
                     /\ requests' = q1
                     /\ rl_last' = Raised(t0, Len(q1))
                     /\ UNCHANGED <<clock, rl_log>>
                ELSE LET wait == WaitTime(q1, t0)
                     IN  IF wait > 0
                         THEN \E lag1 \in lags, lag2 \in lags :
                                LET t1 == t0 + wait + lag1
                                    q2 == EvictOld(q1, t1)
                                    at == t1 + lag2
                                IN  /\ requests' = Append(q2, at)
                                    /\ rl_log' = Append(rl_log, at)
                                    /\ clock' = at
                                    /\ rl_last' = Returned(t0, Len(q1), TRUE, wait,
                                                           Head(q1), t1, at)
                         ELSE \E lag \in lags :
                                LET at == t0 + lag
                                IN  /\ requests' = Append(q1, at)
                                    /\ rl_log' = Append(rl_log, at)
                                    /\ clock' = at
                                    /\ rl_last' = Returned(t0, Len(q1), FALSE, wait,
                                                           Head(q1), t0, at)
           ELSE \E lag \in lags :
                  LET at == t0 + lag
                  IN  /\ requests' = Append(q1, at)
                      /\ rl_log' = Append(rl_log, at)
                      /\ clock' = at
                      /\ rl_last' = Returned(t0, Len(q1), FALSE, 0, 0, t0, at)
    /\ UNCHANGED <<max_requests, time_window, rl_stats, rl_pc, rl_now, rl_wake>>

\* one call of wait_if_needed() on the limiter alone
\* lines 55-65: get_stats(), between two calls of wait_if_needed()
get_stats ==
    /\ \A p \in Callers : rl_pc[p] = "idle"
    /\ rl_stats' = GetStats(requests, clock)
    /\ UNCHANGED <<max_requests, time_window, requests, clock, rl_log, rl_last,
                   rl_calls, rl_pc, rl_now, rl_wake, cacheVars, pipeVars>>

wait_if_needed ==
    /\ rl_calls < MaxCalls
    /\ \A p \in Callers : rl_pc[p] = "idle"
    /\ WaitIfNeeded(0..MaxLag)
    /\ clock' <= MaxClock
    /\ UNCHANGED <<cacheVars, pipeVars>>

(***************************************************************************)
(* wait_if_needed() called by several callers whose statements interleave: *)
(* the limiter takes no lock, so each statement is a step of its own.      *)
(*   enter  35   now = time.time()                                         *)
(*   test1  38   while self.requests and self.requests[0] < now - window   *)
(*   pop1   39       self.requests.popleft()                               *)
(*   check  42   if len(self.requests) >= self.max_requests                *)
(*   calc   43-46    wait_time = ...; if wait_time > 0: time.sleep(...)    *)
(*   sleep  46-48    (asleep) ... now = time.time()                        *)
(*   test2  49   while ...                                                 *)
(*   pop2   50       self.requests.popleft()                               *)
(*   append 53   self.requests.append(time.time())                         *)
(***************************************************************************)
rlFrame == <<max_requests, time_window, rl_stats, rl_last, cacheVars, pipeVars>>

rl_enter(p) ==
    /\ rl_pc[p] = "idle"
    /\ rl_calls < MaxCalls
    /\ rl_calls' = rl_calls + 1
    /\ rl_now' = [rl_now EXCEPT ![p] = clock]
    /\ rl_pc' = [rl_pc EXCEPT ![p] = "test1"]
    /\ UNCHANGED <<rlFrame, requests, clock, rl_log, rl_wake>>

rl_test(p, at, body, exit) ==
    /\ rl_pc[p] = at
    /\ rl_pc' = [rl_pc EXCEPT ![p] =
                    IF ExpiredHead(requests, rl_now[p]) THEN body ELSE exit]
    /\ UNCHANGED <<rlFrame, requests, clock, rl_log, rl_calls, rl_now, rl_wake>>

\* popleft() of a deque another caller has emptied meanwhile raises IndexError
rl_pop(p, at, back) ==
    /\ rl_pc[p] = at
    /\ IF requests = <<>>
       THEN /\ rl_pc' = [rl_pc EXCEPT ![p] = "IndexError"]
            /\ UNCHANGED requests
       ELSE /\ requests' = Tail(requests)
            /\ rl_pc' = [rl_pc EXCEPT ![p] = back]
    /\ UNCHANGED <<rlFrame, clock, rl_log, rl_calls, rl_now, rl_wake>>

rl_check(p) ==
    /\ rl_pc[p] = "check"
    /\ rl_pc' = [rl_pc EXCEPT ![p] =
                    IF LimitReached(requests) THEN "calc" ELSE "append"]
    /\ UNCHANGED <<rlFrame, requests, clock, rl_log, rl_calls, rl_now, rl_wake>>

rl_calc(p) ==
    /\ rl_pc[p] = "calc"
    /\ IF requests = <<>>
       THEN /\ rl_pc' = [rl_pc EXCEPT ![p] = "IndexError"]
            /\ UNCHANGED rl_wake
       ELSE LET wait == WaitTime(requests, rl_now[p])
            IN  IF wait > 0
                THEN /\ rl_wake' = [rl_wake EXCEPT ![p] = clock + wait]
                     /\ rl_pc' = [rl_pc EXCEPT ![p] = "sleep"]
                ELSE /\ rl_pc' = [rl_pc EXCEPT ![p] = "append"]
                     /\ UNCHANGED rl_wake
    /\ UNCHANGED <<rlFrame, requests, clock, rl_log, rl_calls, rl_now>>

rl_wakeup(p) ==
    /\ rl_pc[p] = "sleep"
    /\ clock >= rl_wake[p]
    /\ rl_now' = [rl_now EXCEPT ![p] = clock]
    /\ rl_pc' = [rl_pc EXCEPT ![p] = "test2"]
    /\ UNCHANGED <<rlFrame, requests, clock, rl_log, rl_calls, rl_wake>>

rl_append(p) ==
    /\ rl_pc[p] = "append"
    /\ requests' = Append(requests, clock)
    /\ rl_log' = Append(rl_log, clock)
    /\ rl_pc' = [rl_pc EXCEPT ![p] = "idle"]
    /\ UNCHANGED <<rlFrame, clock, rl_calls, rl_now, rl_wake>>



(***************************************************************************)
(* ArticleAnalysisCache                                                    *)
(***************************************************************************)

\* _analysis_cache = ArticleAnalysisCache(ttl=3600)
DefaultTtl == 3600

\* the symbols, titles and analyses the cache is exercised with; "A" + ":" +
\* "B:C" and "A:B" + ":" + "C" are the same string
CacheSymbols == {"A", "A:B"}
CacheTitles == {"C", "B:C"}
CacheValues == {"v1", "v2"}

\* hashlib.md5(s.encode()).hexdigest(), taken to be collision-free
Md5Hex(s) == <<"md5", s>>

\* _get_key: md5 of f"{symbol}:{title}"
GetKeyNoSymbol(symbol, title) == Md5Hex(title)
GetKey(symbol, title) == Md5Hex(symbol \o ":" \o title)

\* `time.time() - timestamp < self._ttl`
IsFreshInclusive(timestamp, now) == now - timestamp <= ttl
IsFresh(timestamp, now) == now - timestamp < ttl

\* del self._cache[key]
CacheWithout(c, key) == [k \in DOMAIN c \ {key} |-> c[k]]

\* self._cache[key] = (analysis, time.time())
CacheWith(c, key, analysis, now) ==
    [k \in DOMAIN c \cup {key} |->
        IF k = key THEN [data |-> analysis, timestamp |-> now] ELSE c[k]]

\* len(self._cache)
CacheSize(c) == Cardinality(DOMAIN c)

\* history record of one cache call: what it was given, what it returned and
\* what size() would return right after it
CacheOp(op, symbol, title, value, result, c) ==
    [op |-> op, symbol |-> symbol, title |-> title, value |-> value,
     result |-> result, at |-> clock, size |-> CacheSize(c)]

\* the history keeps the last two calls
Remember(ops, o) == IF Len(ops) < 2 THEN Append(ops, o) ELSE <<ops[2], o>>

\* the threads of the pool that serve the interactive requests (the routes
\* are plain `def` functions)
Threads == {"t1", "t2"}
IdleThread ==
    [pc |-> "idle", key |-> None, data |-> None, timestamp |-> 0, last |-> "none"]

\* ArticleAnalysisCache.__init__
\* no analyze_single_article call was made yet
NoAnalysisCall ==
    [n |-> 0, use_cache |-> FALSE, symbol |-> "", title |-> "", found |-> "absent",
     invoked |-> FALSE, failed |-> FALSE,
     returned |-> [is_relevant |-> None, sentiment |-> None, score |-> 0, empty |-> TRUE]]

CacheInit(t) ==
    /\ ttl = t
    /\ last_analysis = NoAnalysisCall
    /\ cache_thr = [t2 \in Threads |-> IdleThread]
    /\ cache = << >>
    /\ cache_ops = << >>
    /\ cache_n = 0

\* ArticleAnalysisCache.get; None is "absent"
cache_get(symbol, title) ==
    LET key == GetKey(symbol, title)
        hit == key \in DOMAIN cache /\ IsFresh(cache[key].timestamp, clock)
        c2 == IF key \in DOMAIN cache /\ ~hit THEN CacheWithout(cache, key) ELSE cache
        result == IF hit THEN cache[key].data ELSE None
    IN  /\ cache_n < MaxCacheOps
        /\ cache' = c2
        /\ cache_ops' = Remember(cache_ops, CacheOp("get", symbol, title, None, result, c2))
        /\ cache_n' = cache_n + 1
        /\ UNCHANGED <<ttl, last_analysis, cache_thr, rlVars, pipeVars>>

\* ArticleAnalysisCache.set
cache_set(symbol, title, analysis) ==
    LET c2 == CacheWith(cache, GetKey(symbol, title), analysis, clock)
    IN  /\ cache_n < MaxCacheOps
        /\ cache' = c2
        /\ cache_ops' = Remember(cache_ops, CacheOp("set", symbol, title, analysis, None, c2))
        /\ cache_n' = cache_n + 1
        /\ UNCHANGED <<ttl, last_analysis, cache_thr, rlVars, pipeVars>>

\* ArticleAnalysisCache.clear
cache_clear ==
    /\ cache_n < MaxCacheOps
    /\ cache' = << >>
    /\ cache_ops' = Remember(cache_ops, CacheOp("clear", None, None, None, None, << >>))
    /\ cache_n' = cache_n + 1
    /\ UNCHANGED <<ttl, last_analysis, cache_thr, rlVars, pipeVars>>



(***************************************************************************)
(* The cache called by two request threads at once: get() is four steps,   *)
(* `key in self._cache`, `self._cache[key]`, the freshness test and        *)
(* `del self._cache[key]`; set() is one dict assignment.                   *)
(***************************************************************************)
Ended(thr, how) == [IdleThread EXCEPT !.last = how]

\* line 33: if key in self._cache
thr_get_contains(t, symbol, title) ==
    LET key == GetKey(symbol, title)
    IN  /\ cache_thr[t].pc = "idle"
        /\ cache_n < MaxCacheOps
        /\ cache_n' = cache_n + 1
        /\ cache_thr' = [cache_thr EXCEPT ![t] =
                             IF key \in DOMAIN cache THEN [@ EXCEPT !.pc = "read", !.key = key]
                             ELSE Ended(@, "absent")]
        /\ UNCHANGED <<ttl, last_analysis, cache, cache_ops, rlVars, pipeVars>>

\* line 34: cached_data, timestamp = self._cache[key]
thr_get_read(t) ==
    LET key == cache_thr[t].key
    IN  /\ cache_thr[t].pc = "read"
        /\ cache_thr' = [cache_thr EXCEPT ![t] =
                             IF key \in DOMAIN cache
                             THEN [@ EXCEPT !.pc = "test", !.data = cache[key].data,
                                            !.timestamp = cache[key].timestamp]
                             ELSE Ended(@, "KeyError")]
        /\ UNCHANGED <<ttl, last_analysis, cache, cache_ops, cache_n, rlVars, pipeVars>>

\* line 35: if time.time() - timestamp < self._ttl: return cached_data
thr_get_test(t) ==
    /\ cache_thr[t].pc = "test"
    /\ cache_thr' = [cache_thr EXCEPT ![t] =
                         IF IsFresh(@.timestamp, clock) THEN Ended(@, "hit")
                         ELSE [@ EXCEPT !.pc = "del"]]
    /\ UNCHANGED <<ttl, last_analysis, cache, cache_ops, cache_n, rlVars, pipeVars>>

\* line 38: del self._cache[key]; then return None
thr_get_del(t) ==
    LET key == cache_thr[t].key
    IN  /\ cache_thr[t].pc = "del"
        /\ IF key \in DOMAIN cache
           THEN /\ cache' = CacheWithout(cache, key)
                /\ cache_thr' = [cache_thr EXCEPT ![t] = Ended(@, "absent")]
           ELSE /\ cache_thr' = [cache_thr EXCEPT ![t] = Ended(@, "KeyError")]
                /\ UNCHANGED cache
        /\ UNCHANGED <<ttl, last_analysis, cache_ops, cache_n, rlVars, pipeVars>>

\* line 45: self._cache[key] = (analysis, time.time())
thr_set(t, symbol, title, analysis) ==
    /\ cache_thr[t].pc = "idle"
    /\ cache_n < MaxCacheOps
    /\ cache_n' = cache_n + 1
    /\ cache' = CacheWith(cache, GetKey(symbol, title), analysis, clock)
    /\ cache_thr' = [cache_thr EXCEPT ![t] = Ended(@, "set")]
    /\ UNCHANGED <<ttl, last_analysis, cache_ops, rlVars, pipeVars>>

(***************************************************************************)
(* Storage and the news feed                                               *)
(***************************************************************************)

Symbols == {"HPG", "VNM"}

\* the titles of the feed
TDividend == "Dividend plan"
TEarnings == "earnings contract"
TPlain == "market update"
Titles == {TDividend, TEarnings, TPlain}

\* a title the feed does not bring, for the detector ("Trả cổ tức")
TCoTuc == "Tra co tuc"

\* the keywords k of the signal rules with `k in title.lower()`; Vietnamese
\* keywords are written without their diacritics
KeywordsIn(title) ==
    CASE title = TDividend -> {"dividend"}
      [] title = TEarnings -> {"earnings", "contract"}
      [] title = TCoTuc -> {"co tuc"}
      [] OTHER -> {}

\* what analyze_single_article returns: the classifier's JSON, or {} when the
\* call or its parsing failed
\* (is_relevant is "True", "False" or None; score 0 with empty stands for None)
EmptyAnalysis == [is_relevant |-> None, sentiment |-> None, score |-> 0, empty |-> TRUE]
Analysis(rel, sent, sc) == [is_relevant |-> rel, sentiment |-> sent, score |-> sc, empty |-> FALSE]

\* the published date of a news item that datetime.fromisoformat rejects (or
\* that is missing)
Unparsable == -1

\* `if len(articles) < 3`
MinWeeklyArticles == 3

\* a raw news item together with what its collaborators answer for it: whether
\* the content fetch of its link succeeds, and the classifier's result
Item(title, link, published, scrape_ok, analysis) ==
    [title |-> title, link |-> link, published |-> published,
     scrape_ok |-> scrape_ok, analysis |-> analysis]

ItemA == Item(TDividend, "l1", 0, TRUE, Analysis("True", "Bullish", 8))
ItemA2 == Item(TDividend, "l2", Unparsable, TRUE, Analysis("True", "Bullish", 8))
ItemB == Item(TEarnings, "l3", Unparsable, TRUE, Analysis("True", "Bullish", 7))
ItemC == Item(TPlain, "l4", 0, TRUE, Analysis("False", "Bearish", 2))
ItemNoLink == Item(TPlain, None, 0, TRUE, Analysis("False", "Neutral", 2))
ItemNoScrape == Item(TPlain, "l5", 0, FALSE, Analysis("False", "Neutral", 2))
ItemNoAnalysis == Item(TPlain, "l6", 0, TRUE, EmptyAnalysis)
ItemNoTitle == Item(None, "l7", 0, TRUE, Analysis("False", "Neutral", 2))

\* the lists news_service.get_company_news may return as 'data'
NewsLists ==
    { <<>>,
      <<ItemA, ItemB, ItemC>>,
      <<ItemA, ItemA, ItemC>>,
      <<ItemA, ItemA2, ItemB>>,
      <<ItemNoLink, ItemNoScrape, ItemNoAnalysis>>,
      <<ItemNoTitle, ItemC>> }

\* db.query(AnalyzedArticle).filter_by(symbol=symbol, title=title).first()
ExistingArticle(symbol, title) ==
    {r \in articles : r.symbol = symbol /\ r.title = title}

\* the Ingestion Gate: the items of news_list with no AnalyzedArticle row
RECURSIVE NewArticles(_, _)
NewArticles(symbol, news_list) ==
    IF news_list = <<>> THEN <<>>
    ELSE LET news == Head(news_list)
             rest == NewArticles(symbol, Tail(news_list))
         IN  IF ExistingArticle(symbol, news.title) = {} THEN <<news>> \o rest ELSE rest

\* datetime.fromisoformat(pub_date_str...) or, failing that, datetime.now()
PubDate(news) == IF news.published = Unparsable THEN dt_now ELSE news.published

\* AnalyzedArticle(symbol=..., title=..., ..., score=analysis.get('score'), ...)
ArticleRow(id, symbol, news, analysis) ==
    [id |-> id, symbol |-> symbol, title |-> news.title, link |-> news.link,
     published_at |-> PubDate(news), is_relevant |-> analysis.is_relevant,
     sentiment |-> analysis.sentiment, score |-> analysis.score,
     has_analysis |-> ~analysis.empty]

\* UniqueConstraint('symbol', 'title', 'published_at', name='uix_article_dedup')
NoUniqueConstraint(rows, row) == FALSE
ViolatesUnique(rows, row) ==
    \E r \in rows : /\ r.symbol = row.symbol
                    /\ r.title = row.title
                    /\ r.published_at = row.published_at

\* db.add(analyzed); db.commit() of a row that violates no constraint
MergeArticle(rows, row) ==
    {r \in rows : ~(r.symbol = row.symbol /\ r.title = row.title)} \cup {row}
AddArticle(rows, row) == rows \cup {row}

\* the autoincrement primary key
NextId(rows) == Cardinality(rows) + 1

(***************************************************************************)
(* The scheduler of workers/__init__.py                                    *)
(***************************************************************************)

\* the ids of the two jobs start_scheduler adds
JobIds == {"news_analysis_periodic", "startup_analysis"}

\* max_instances=1 of the periodic job; the startup job has the default, 1
MaxInstances == 1

\* neither add_job passes misfire_grace_time: the scheduler's default, 1 second
MisfireGraceTime == 1

\* scheduler = AsyncIOScheduler(), before start_scheduler
NotStarted ==
    [started |-> FALSE,
     shutdown |-> "no",                         \* "no", "requested" or "done"
     shutdown_at |-> "none",                    \* run.pc when it was requested
     next |-> [j \in JobIds |-> "none"],        \* "none", "waiting" or "due"
     late |-> [j \in JobIds |-> 0],             \* seconds since the due run time
     during |-> [j \in JobIds |-> FALSE],       \* it came due while a run executed
     instances |-> [j \in JobIds |-> 0],
     ready |-> <<>>,                            \* tasks created, not yet begun
     executing |-> <<>>,                        \* executions of run_analysis_job begun
     fires |-> 0,
     began_during |-> FALSE,                    \* an execution began for such a run time
     dropped |-> 0]

(***************************************************************************)
(* History kept for the claims                                             *)
(***************************************************************************)
\* what prev_news holds for a symbol no pass has fetched news for
NoList == [seen |-> FALSE, news |-> <<>>]
SeenList(news_list) == [seen |-> TRUE, news |-> news_list]

\* admissions counts the pass's calls of wait_if_needed, content_fetches its
\* page downloads (Article(link).download()), detected its calls of
\* detect_signals, failed_write the id of the article whose signal the
\* database refused (0: none), narrated its calls of analyze_weekly_trends;
\* aggregated tells what its call of update_weekly_summary did: "no" call,
\* "skipped" (a row exists and it is not Monday), "too few" articles,
\* "inserted", "updated"
NoPass == [symbol |-> None, news |-> <<>>, inserted |-> 0, same_as_prev |-> FALSE,
           admissions |-> 0, content_fetches |-> 0, failed_write |-> 0,
           detected |-> 0, narrated |-> 0, aggregated |-> "no", outcome |-> "none"]

\* an upstream call made by `who` is recorded as admitted when an admission
\* on the shared limiter came right before it, as unadmitted otherwise
UpstreamCall(who, admitted) ==
    [upstream EXCEPT ![who] = @ \cup {IF admitted THEN "admitted" ELSE "unadmitted"}]

Bump(f, k) == [f EXCEPT ![k] = IF @ < 2 THEN @ + 1 ELSE @]

(***************************************************************************)
(* news_service.get_company_news                                           *)
(***************************************************************************)

\* symbol.upper().strip() on the symbols a caller may pass
NewsSymbols == {"HPG", "hpg", " hpg ", " "}
UpperStrip(symbol) ==
    CASE symbol \in {"HPG", "hpg", " hpg "} -> "HPG"
      [] symbol = " " -> ""

\* what a collaborator of get_company_news does: it raises, or returns n items
Outcomes == [raised : {FALSE}, n : 0..MaxNewsItems] \cup {[raised |-> TRUE, n |-> 0]}

NoNewsCall ==
    [state |-> "none", symbol |-> None, fallback |-> FALSE,
     cached |-> [raised |-> FALSE, n |-> 0], primary |-> [raised |-> FALSE, n |-> 0],
     rss |-> [raised |-> FALSE, n |-> 0],
     raised |-> FALSE, error |-> FALSE, status |-> None, result_symbol |-> None,
     has_data |-> FALSE, data |-> 0, count |-> 0,
     primary_called |-> FALSE, rss_called |-> FALSE]

\* _ok, _no_data, _err and an exception leaving get_company_news
NewsOk(c, symbol_u, n) ==
    [c EXCEPT !.state = "done", !.status = "ok", !.result_symbol = symbol_u,
              !.has_data = TRUE, !.data = n, !.count = n]
NewsNoData(c, symbol_u) ==
    [c EXCEPT !.state = "done", !.status = "no_data", !.result_symbol = symbol_u,
              !.has_data = TRUE, !.data = 0, !.count = 0]
NewsErr(c, symbol_u) ==
    [c EXCEPT !.state = "done", !.error = TRUE, !.result_symbol = symbol_u]
NewsRaised(c) == [c EXCEPT !.state = "done", !.raised = TRUE]

\* line 151: get_news_from_db(symbol_u) is called outside any try
CacheLookupRaises(c) == c.cached.raised

\* lines 146-201: get_company_news(symbol, limit, source, fallback_to_google),
\* limit at least the number of items the source returns
GetCompanyNews(c) ==
    LET symbol_u == UpperStrip(c.symbol)
        c1 == [c EXCEPT !.primary_called = TRUE]
        c2 == [c1 EXCEPT !.rss_called = TRUE]
    IN  IF symbol_u = "" THEN NewsErr(c, None)
        ELSE IF CacheLookupRaises(c) THEN NewsRaised(c)
        ELSE IF ~c.cached.raised /\ c.cached.n > 0 THEN NewsOk(c, symbol_u, c.cached.n)
        ELSE IF ~c.primary.raised /\ c.primary.n > 0 THEN NewsOk(c1, symbol_u, c.primary.n)
        ELSE IF ~c.fallback THEN NewsErr(c1, symbol_u)
        ELSE IF c.rss.raised THEN NewsErr(c2, symbol_u)
        ELSE IF c.rss.n = 0 THEN NewsNoData(c2, symbol_u)
        ELSE NewsOk(c2, symbol_u, c.rss.n)

get_company_news ==
    /\ news_call.state = "called"
    /\ news_call' = GetCompanyNews(news_call)
    /\ UNCHANGED <<rlVars, cacheVars, dt_now, articles, signals, summaries, db_session,
                   watchlist, signal_resp, stream, autoflush, run, histVars, sched>>

\* no analyze_stock_stream call was made
NoStream ==
    [state |-> "none", news_ok |-> TRUE, news |-> <<>>, events |-> <<>>]

\* no mark_signal_read request was answered yet
NoSignalResponse == [request |-> 0, signal_id |-> 0, status |-> "none"]

\* SessionLocal of app/db/session.py: a pending Signal counts as existing for
\* the rules tried after it, so the Session flushes before it queries
SessionAutoflush == "on"

PipeInit(wl, af) ==
    /\ dt_now = 0
    /\ watchlist = wl
    /\ news_call = NoNewsCall
    /\ signal_resp = NoSignalResponse
    /\ stream = NoStream
    /\ autoflush = af
    /\ articles = {}
    /\ signals = {}
    /\ summaries = {}
    /\ db_session = "closed"
    /\ run = [pc |-> "idle", todo |-> <<>>, new_articles |-> <<>>]
    /\ upstream = [who \in Callers |-> {}]
    /\ tokens = 0
    /\ classified = [k \in Symbols \X (Titles \cup {None}) |-> 0]
    /\ pass = NoPass
    /\ prev_news = [sym \in Symbols |-> NoList]
    /\ steps = 0
    /\ sched = NotStarted

\* a day passes between two runs
NextDay ==
    /\ dt_now < MaxDay
    /\ run.pc = "idle"
    /\ dt_now' = dt_now + 1
    /\ UNCHANGED <<rlVars, cacheVars, dbVars, run, histVars, sched>>

(***************************************************************************)
(* The background run: run_analysis_job -> analyze_watchlist_stocks ->     *)
(* analyze_symbol_news -> analyze_and_store_article, detect_signals,       *)
(* update_weekly_summary.  run.pc is the statement the run has reached.    *)
(***************************************************************************)

\* the orders in which db.query(Watchlist.symbol).distinct().all() may list a set
OrdersWithRepeats(S) == [1..Cardinality(S) -> S]
Orders(S) ==
    {o \in UNION {[1..n -> S] : n \in {Cardinality(S)}} :
        \A i, j \in DOMAIN o : i # j => o[i] # o[j]}

\* run_analysis_job: db = SessionLocal(); analyze_watchlist_stocks up to its loop
run_analysis_job ==
    /\ run.pc = "idle"
    /\ sched.shutdown # "done"
    /\ steps < MaxSteps
    /\ \E order \in Orders(watchlist) :
        IF order = <<>>
        THEN \* `if not symbols: return`, then db.close()
             /\ db_session' = "closed"
             /\ UNCHANGED run
        ELSE /\ db_session' = "ok"
             /\ run' = [pc |-> "symbol", todo |-> order, new_articles |-> <<>>]
    /\ UNCHANGED <<rlVars, cacheVars, dt_now, sched, watchlist, news_call, signal_resp, stream, articles, signals, summaries,
                   autoflush, histVars>>

\* where a symbol's pass ends: the loop of analyze_watchlist_stocks moves on
EndPassKeepsSymbol(p, outcome) ==
    /\ run' = [pc |-> "symbol", todo |-> run.todo, new_articles |-> <<>>]
    /\ pass' = [p EXCEPT !.outcome = outcome]
    /\ prev_news' = [prev_news EXCEPT ![pass.symbol] = SeenList(pass.news)]
EndPassOf(p, outcome) ==
    /\ run' = [pc |-> "symbol", todo |-> Tail(run.todo), new_articles |-> <<>>]
    /\ pass' = [p EXCEPT !.outcome = outcome]
    /\ prev_news' = [prev_news EXCEPT ![pass.symbol] = SeenList(pass.news)]

EndPass(outcome) == EndPassOf(pass, outcome)

\* `for idx, symbol in enumerate(symbols, 1)`; after the loop, db.close()
next_symbol ==
    /\ run.pc = "symbol"
    /\ IF run.todo = <<>>
       THEN /\ run' = [run EXCEPT !.pc = "idle"]
            /\ db_session' = "closed"
            /\ UNCHANGED <<pass, steps>>
       ELSE /\ steps < MaxSteps
            /\ run' = [run EXCEPT !.pc = "admit_news"]
            /\ pass' = [NoPass EXCEPT !.symbol = Head(run.todo), !.outcome = "running"]
            /\ steps' = steps + 1
            /\ UNCHANGED db_session
    /\ UNCHANGED <<rlVars, cacheVars, dt_now, sched, watchlist, news_call, signal_resp, stream, articles, signals, summaries,
                   autoflush, upstream, tokens, classified, prev_news>>

runFrame == <<cacheVars, dt_now, watchlist, news_call, signal_resp, stream, autoflush, sched>>

\* line 121 / line 150: vnstock_rate_limiter.wait_if_needed()
admit(at, next) ==
    /\ run.pc = at
    /\ WaitIfNeeded({0})
    /\ tokens' = 1
    /\ run' = [run EXCEPT !.pc = next]
    /\ pass' = [pass EXCEPT !.admissions = @ + 1]
    /\ UNCHANGED <<runFrame, articles, signals, summaries, db_session,
                   upstream, classified, prev_news, steps>>

\* lines 125-144: news_service.get_company_news, then the Ingestion Gate.
\* from_provider: the news came from the provider, not from today's stock_news rows
fetch_news ==
    /\ run.pc = "fetch_news"
    /\ \E news_list \in NewsLists, from_provider \in BOOLEAN :
        LET symbol == pass.symbol
            up == IF from_provider THEN UpstreamCall("background", tokens > 0) ELSE upstream
            p1 == [pass EXCEPT !.news = news_list,
                               !.same_as_prev = (prev_news[symbol] = SeenList(news_list))]
        IN  /\ upstream' = up
            /\ tokens' = 0
            /\ IF db_session # "ok" /\ news_list # <<>>
               THEN \* the gate's db.query on a Session that awaits rollback raises
                    /\ run' = [pc |-> "symbol", todo |-> Tail(run.todo), new_articles |-> <<>>]
                    /\ pass' = [p1 EXCEPT !.outcome = "PendingRollbackError"]
                    /\ prev_news' = [prev_news EXCEPT ![symbol] = SeenList(news_list)]
               ELSE LET new_articles == NewArticles(symbol, news_list)
                    IN  IF new_articles = <<>>
                        THEN \* `if not new_articles: return`
                             /\ run' = [pc |-> "symbol", todo |-> Tail(run.todo),
                                        new_articles |-> <<>>]
                             /\ pass' = [p1 EXCEPT !.outcome = "no new articles"]
                             /\ prev_news' = [prev_news EXCEPT ![symbol] = SeenList(news_list)]
                        ELSE /\ run' = [run EXCEPT !.pc = "admit_context",
                                                   !.new_articles = new_articles]
                             /\ pass' = p1
                             /\ UNCHANGED prev_news
    /\ UNCHANGED <<rlVars, runFrame, articles, signals, summaries, db_session,
                   classified, steps>>

\* line 151: stocks_service.get_market_context(symbol), one quote.history call
get_market_context ==
    /\ run.pc = "context"
    /\ upstream' = UpstreamCall("background", tokens > 0)
    /\ tokens' = 0
    /\ run' = [run EXCEPT !.pc = "article"]
    /\ UNCHANGED <<rlVars, runFrame, articles, signals, summaries, db_session,
                   classified, pass, prev_news, steps>>

\* lines 154-155 and 164-219: analyze_and_store_article for the next new article
\* the use_cache argument of analyze_single_article: the background run passes
\* False (news_analyzer.py line 189), analyze_stock leaves the default True
UseCacheAlways(caller) == TRUE
UseCache(caller) == caller = "interactive"

\* article_analyzer.py lines 90-94 and 213-217: what analyze_single_article
\* does to the cache c for one item whose page was read
AnalyzeCacheEffectStoringFailures(use_cache, symbol, news, c) ==
    IF use_cache THEN CacheWith(c, GetKey(symbol, news.title), news.analysis, clock) ELSE c
AnalyzeCacheEffect(use_cache, symbol, news, c) ==
    LET key == GetKey(symbol, news.title)
        hit == key \in DOMAIN c /\ IsFresh(c[key].timestamp, clock)
        c2 == IF key \in DOMAIN c /\ ~hit THEN CacheWithout(c, key) ELSE c
    IN  IF ~use_cache \/ hit THEN c
        ELSE IF news.analysis.empty THEN c2
        ELSE CacheWith(c2, key, news.analysis, clock)

\* article_analyzer.py lines 60-223: one call analyze_single_article(symbol,
\* price_context, title, content, use_cache). outcome is what the classifier
\* answers if it is invoked: an analysis, or EmptyAnalysis when the call or
\* json.loads raises and {} is returned
analyze_single_article(use_cache, symbol, title, outcome) ==
    LET key == GetKey(symbol, title)
        found == IF key \notin DOMAIN cache THEN "absent"
                 ELSE IF IsFresh(cache[key].timestamp, clock) THEN "fresh"
                 ELSE "expired"
        hit == use_cache /\ found = "fresh"
    IN  /\ cache_n < MaxCacheOps
        /\ cache_n' = cache_n + 1
        /\ cache' = AnalyzeCacheEffect(use_cache, symbol,
                                       [title |-> title, analysis |-> outcome], cache)
        /\ last_analysis' =
               [n |-> cache_n + 1, use_cache |-> use_cache, symbol |-> symbol,
                title |-> title, found |-> found, invoked |-> ~hit,
                failed |-> ~hit /\ outcome.empty,
                returned |-> IF hit THEN cache[key].data ELSE outcome]
        /\ UNCHANGED <<ttl, cache_thr, cache_ops, rlVars, pipeVars>>

analyze_and_store_article ==
    /\ run.pc = "article"
    /\ run.new_articles # <<>>
    /\ LET symbol == pass.symbol
           news == Head(run.new_articles)
           rest == Tail(run.new_articles)
           skip == /\ run' = [run EXCEPT !.new_articles = rest,
                                         !.pc = IF rest = <<>> THEN "signals" ELSE "article"]
                   /\ UNCHANGED <<articles, db_session, classified, prev_news>>
           \* line 185: the page is downloaded, the pass has one more fetch
           fetched == [pass EXCEPT !.content_fetches = @ + 1]
           analyzed == news.link # None /\ news.title # None /\ news.scrape_ok
       IN  /\ cache' = IF analyzed
                       THEN AnalyzeCacheEffect(UseCache("background"), symbol, news, cache)
                       ELSE cache
           /\ IF news.link = None
              THEN skip /\ UNCHANGED pass         \* `if not link: return`
              ELSE IF news.title = None
              THEN \* title[:60] of None: TypeError, not caught here
                   /\ EndPass("TypeError")
                   /\ UNCHANGED <<articles, db_session, classified>>
              ELSE IF ~news.scrape_ok
              THEN skip /\ pass' = fetched        \* except Exception: return
              ELSE LET row == ArticleRow(NextId(articles), symbol, news, news.analysis)
                   IN  /\ classified' = Bump(classified, <<symbol, news.title>>)
                       /\ IF ViolatesUnique(articles, row)
                          THEN \* db.commit() raises IntegrityError, not caught here
                               /\ db_session' = "needs_rollback"
                               /\ EndPassOf(fetched, "IntegrityError")
                               /\ UNCHANGED articles
                          ELSE /\ articles' = AddArticle(articles, row)
                               /\ run' = [run EXCEPT !.new_articles = rest,
                                             !.pc = IF rest = <<>> THEN "signals" ELSE "article"]
                               /\ pass' = [fetched EXCEPT !.inserted = @ + 1]
                               /\ UNCHANGED <<db_session, prev_news>>
    /\ UNCHANGED <<rlVars, ttl, last_analysis, cache_thr, cache_ops, cache_n, dt_now, watchlist, news_call, signal_resp, stream,
                   autoflush, sched, signals, summaries, upstream, tokens, steps>>

\* the three rules of detect_signals, in the order the code tries them
SignalRules ==
    << [signal_type |-> "dividend_announced",
        keywords |-> {"co tuc", "dividend", "phan phoi", "chia co"},
        bullish_only |-> FALSE, min_score |-> 6, days |-> 30],
       [signal_type |-> "earnings_beat",
        keywords |-> {"doanh thu", "loi nhuan", "ket qua kinh doanh", "earnings"},
        bullish_only |-> TRUE, min_score |-> 7, days |-> 7],
       [signal_type |-> "major_contract",
        keywords |-> {"hop dong", "du an", "contract", "partnership"},
        bullish_only |-> TRUE, min_score |-> 7, days |-> 14] >>

\* the priority each rule gives its signal
PriorityAlwaysHigh(rule, article) == "high"
Priority(rule, article) ==
    CASE rule.signal_type = "dividend_announced" ->
             IF article.score >= 8 THEN "high" ELSE "medium"
      [] rule.signal_type = "earnings_beat" -> "high"
      [] OTHER -> "medium"

\* Signal(symbol=..., signal_type=..., priority=..., article_id=..., expires_at=...)
SignalRow(id, symbol, rule, article) ==
    [id |-> id, symbol |-> symbol, signal_type |-> rule.signal_type,
     priority |-> Priority(rule, article), article_id |-> article.id,
     detected_at |-> dt_now, expires_at |-> dt_now + rule.days, is_read |-> FALSE]

\* db.query(Signal).filter_by(article_id=article.id).first()
ExistingSignalOfType(visible, article, rule) ==
    \E sg \in visible : sg.article_id = article.id /\ sg.signal_type = rule.signal_type
ExistingSignal(visible, article, rule) ==
    \E sg \in visible : sg.article_id = article.id

\* rules i..3 applied to one article; pending are the signals added, not yet
\* committed: the query for an existing signal sees them when the Session
\* flushes before it queries
RECURSIVE ApplyRules(_, _, _, _, _)
ApplyRules(symbol, article, i, pending, flush) ==
    IF i > Len(SignalRules) THEN pending
    ELSE LET rule == SignalRules[i]
             visible == signals \cup (IF flush = "on" THEN pending ELSE {})
             existing == ExistingSignal(visible, article, rule)
             fires == /\ KeywordsIn(article.title) \cap rule.keywords # {}
                      /\ ~existing
                      /\ rule.bullish_only => article.sentiment = "Bullish"
                      /\ article.score >= rule.min_score
             id == Cardinality(signals \cup pending) + 1
         IN  ApplyRules(symbol, article, i + 1,
                        IF fires THEN pending \cup {SignalRow(id, symbol, rule, article)}
                        ELSE pending, flush)

\* the rows of a set in the order of their ids
RECURSIVE ById(_)
ById(rows) ==
    IF rows = {} THEN <<>>
    ELSE LET first == CHOOSE r \in rows : \A q \in rows : r.id <= q.id
         IN  <<first>> \o ById(rows \ {first})

RECURSIVE DetectIn(_, _, _, _)
DetectIn(symbol, recent, pending, flush) ==
    IF recent = <<>> THEN pending
    ELSE DetectIn(symbol, Tail(recent),
                  ApplyRules(symbol, Head(recent), 1, pending, flush), flush)

\* lines 237-241: the rows of the symbol published in the past 24 hours (one
\* day of the model's clock) that are relevant
RecentArticlesOfAnyRelevance(symbol) ==
    {r \in articles : r.symbol = symbol /\ r.published_at >= dt_now - 1}
RecentArticles(symbol) ==
    {r \in articles : /\ r.symbol = symbol
                      /\ r.published_at >= dt_now - 1
                      /\ r.is_relevant = "True"}

\* lines 230-304: detect_signals(db, symbol)
\* failed_write: the article whose Signal the database refuses to write (its
\* INSERT raises at the flush before a later query or at db.commit(), line
\* 303), 0 (no row's id) when the database takes every write. Nothing in detect_signals
\* catches the exception: the session's transaction is rolled back, so no
\* signal added in this call is stored, and the pass of the symbol ends
detect_signals ==
    /\ run.pc = "signals"
    /\ LET symbol == pass.symbol
           recent == RecentArticles(symbol)
           added == DetectIn(symbol, ById(recent), {}, autoflush)
       IN  \E failed_write \in {0} \cup {sg.article_id : sg \in added} :
              IF failed_write = 0
              THEN /\ signals' = signals \cup added
                   /\ run' = [run EXCEPT !.pc = "weekly"]
                   /\ pass' = [pass EXCEPT !.detected = @ + 1]
                   /\ UNCHANGED <<db_session, prev_news>>
              ELSE /\ db_session' = "needs_rollback"
                   /\ EndPassOf([pass EXCEPT !.detected = @ + 1,
                                             !.failed_write = failed_write],
                                "OperationalError")
                   /\ UNCHANGED signals
    /\ UNCHANGED <<rlVars, runFrame, articles, summaries,
                   upstream, tokens, classified, steps>>

\* today.weekday(): day 0 is a Monday
Weekday(day) == day % 7

\* sum(a.score for a in articles if a.score); a missing score is kept as 0
RECURSIVE SumScores(_)
SumScores(rows) ==
    IF rows = {} THEN 0
    ELSE LET r == CHOOSE x \in rows : TRUE
         IN  (IF r.has_analysis THEN r.score ELSE 0) + SumScores(rows \ {r})

\* analyze_weekly_trends: the model's trend_direction, or "Unknown" when the
\* call or its parsing fails
TrendOutcomes == {"Improving", "Declining", "Stable", "Volatile", "Unknown"}

\* lines 307-375: update_weekly_summary(db, symbol), which ends the symbol's pass
\* the rows of a symbol published within [week_start, week_end]
WeekArticlesAnyDate(symbol, week_start) == {r \in articles : r.symbol = symbol}
WeekArticles(symbol, week_start) ==
    {r \in articles : /\ r.symbol = symbol
                      /\ r.published_at >= week_start
                      /\ r.published_at <= week_start + 6}

\* lines 335-339 and 359-372: the aggregate metrics and the WeeklySummary made
\* of them; avg_score is the quotient num / den
WeeklyRow(id, symbol, week_start, week, trend, at) ==
    LET total == Cardinality(week)
        bullish == Cardinality({r \in week : r.sentiment = "Bullish"})
        bearish == Cardinality({r \in week : r.sentiment = "Bearish"})
    IN  [id |-> id, symbol |-> symbol, week_start |-> week_start,
         week_end |-> week_start + 6, total_articles |-> total, bullish_count |-> bullish,
         bearish_count |-> bearish, neutral_count |-> total - bullish - bearish,
         avg_score |-> [num |-> SumScores(week), den |-> total],
         trend_direction |-> trend, analyzed_at |-> at]

\* lines 314-317: db.query(WeeklySummary).filter_by(symbol=symbol,
\* week_start=week_start).first()
NoExistingSummary(symbol, week_start) == {}
ExistingSummary(symbol, week_start) ==
    {w \in summaries : w.symbol = symbol /\ w.week_start = week_start}

\* lines 319-321: `if existing and datetime.now().weekday() != 0: return`
SkipsWeekWheneverExists(existing, now) == existing # {}
SkipsWeek(existing, now) == existing # {} /\ Weekday(now) # 0

update_weekly_summary ==
    /\ run.pc = "weekly"
    /\ LET symbol == pass.symbol
           week_start == dt_now - Weekday(dt_now)
           existing == ExistingSummary(symbol, week_start)
           week == WeekArticles(symbol, week_start)
           \* the existing row keeps its id, a new row gets the next one
           id == IF existing # {} THEN (CHOOSE w \in existing : TRUE).id
                 ELSE Cardinality(summaries) + 1
       IN  IF SkipsWeek(existing, dt_now)
           THEN /\ UNCHANGED summaries
                /\ pass' = [pass EXCEPT !.outcome = "done", !.aggregated = "skipped"]
           ELSE IF Cardinality(week) < MinWeeklyArticles
           THEN /\ UNCHANGED summaries
                /\ pass' = [pass EXCEPT !.outcome = "done", !.aggregated = "too few"]
           ELSE /\ \E trend \in TrendOutcomes :
                      summaries' = (summaries \ existing)
                          \cup {WeeklyRow(id, symbol, week_start, week, trend, dt_now)}
                /\ pass' = [pass EXCEPT !.outcome = "done", !.narrated = @ + 1,
                               !.aggregated = IF existing # {} THEN "updated"
                                              ELSE "inserted"]
    /\ run' = [pc |-> "symbol", todo |-> Tail(run.todo), new_articles |-> <<>>]
    /\ prev_news' = [prev_news EXCEPT ![pass.symbol] = SeenList(pass.news)]
    /\ UNCHANGED <<rlVars, runFrame, articles, signals, db_session,
                   upstream, tokens, classified, steps>>

(***************************************************************************)
(* Requests served while the run is under way                              *)
(***************************************************************************)

\* the ids a request may name: those of the rows and the next one, which no
\* row has
SignalIds == {sg.id : sg \in signals} \cup {Cardinality(signals) + 1}

\* requests are taken between the passes of a run: they commute with the
\* steps of a pass, which reads neither the cache nor is_read
Between == run.pc \in {"idle", "symbol"}

\* legacy_api.analyze_stock, lines 30-60: for each item of the list with a link
\* and a readable page, analyze_single_article with use_cache left at True; c
\* is the cache
RECURSIVE InteractiveItems(_, _, _)
InteractiveItems(symbol, news_list, c) ==
    IF news_list = <<>> THEN c
    ELSE LET news == Head(news_list)
             after ==
                 IF news.link = None \/ ~news.scrape_ok THEN c
                 ELSE AnalyzeCacheEffect(UseCache("interactive"), symbol, news, c)
         IN  InteractiveItems(symbol, Tail(news_list), after)

\* legacy_api.analyze_stock / analyze_stock_stream: the market context and the
\* news are fetched with no admission
analyze_stock(symbol) ==
    /\ Between
    /\ steps < MaxSteps
    /\ steps' = steps + 1
    /\ \E news_list \in NewsLists : cache' = InteractiveItems(symbol, news_list, cache)
    /\ upstream' = UpstreamCall("interactive", FALSE)
    /\ UNCHANGED <<rlVars, ttl, last_analysis, cache_thr, cache_ops, cache_n, dt_now, sched, dbVars, run,
                   tokens, classified, pass, prev_news>>

\* lines 148-149: signal.is_read = True; db.commit()
ToggleRead(rows, signal_id) ==
    {IF sg.id = signal_id THEN [sg EXCEPT !.is_read = ~@] ELSE sg : sg \in rows}
MarkRead(rows, signal_id) ==
    {IF sg.id = signal_id THEN [sg EXCEPT !.is_read = TRUE] ELSE sg : sg \in rows}

\* the answer of the route: the request's number, the id asked for and the
\* HTTP status
SignalResponse(signal_id, status) ==
    [request |-> steps + 1, signal_id |-> signal_id, status |-> status]

\* POST /signals/{signal_id}/mark_read, lines 140-154: an id with no row
\* answers 404 and nothing is written
mark_signal_read(signal_id) ==
    /\ Between
    /\ steps < MaxSteps
    /\ steps' = steps + 1
    /\ IF \E sg \in signals : sg.id = signal_id
       THEN /\ signals' = MarkRead(signals, signal_id)
            /\ signal_resp' = SignalResponse(signal_id, "200")
       ELSE /\ signal_resp' = SignalResponse(signal_id, "404")
            /\ UNCHANGED signals
    /\ UNCHANGED <<rlVars, cacheVars, dt_now, sched, watchlist, news_call, stream, articles,
                   summaries, db_session, autoflush, run, upstream, tokens, classified,
                   pass, prev_news>>

(***************************************************************************)
(* The scheduler at work.  Jobs are coroutines run as tasks of the one     *)
(* event loop, and so is the scheduler's own wakeup.                       *)
(***************************************************************************)

schedFrame == <<rlVars, cacheVars, dt_now, dbVars, run, histVars>>

\* run_analysis_job and everything it awaits has no suspension point (the
\* waits are time.sleep, the I/O is blocking): while an execution is under
\* way the loop runs nothing else
LoopFreeAlways == TRUE
LoopFree == sched.executing = <<>>

\* start_scheduler: add_job(interval, id='news_analysis_periodic',
\* max_instances=1), add_job(trigger='date', id='startup_analysis'), start()
start_scheduler ==
    /\ ~sched.started
    /\ sched' = [sched EXCEPT !.started = TRUE,
                              !.next = [j \in JobIds |->
                                  IF j = "startup_analysis" THEN "due" ELSE "waiting"]]
    /\ UNCHANGED schedFrame

\* hours_between_news_fetch hours have passed: the periodic job comes due
trigger_periodic ==
    /\ sched.started
    /\ sched.next["news_analysis_periodic"] = "waiting"
    /\ sched.fires < MaxFires
    /\ sched' = [sched EXCEPT !.next["news_analysis_periodic"] = "due",
                              !.late["news_analysis_periodic"] = 0,
                              !.during["news_analysis_periodic"] = (sched.executing # <<>>),
                              !.fires = @ + 1]
    /\ UNCHANGED schedFrame

\* a second passes for the run times that are due and not yet begun
Later(n) == IF n < MaxLate THEN n + 1 ELSE n

sched_tick ==
    /\ \/ \E j \in JobIds : sched.next[j] = "due" /\ sched.late[j] < MaxLate
       \/ \E i \in DOMAIN sched.ready : sched.ready[i].late < MaxLate
    /\ sched' = [sched EXCEPT
           !.late = [j \in JobIds |-> IF sched.next[j] = "due" THEN Later(@[j]) ELSE @[j]],
           !.ready = [i \in DOMAIN @ |-> [@[i] EXCEPT !.late = Later(@)]]]
    /\ UNCHANGED schedFrame

\* BaseExecutor.submit_job for the due jobs in turn: a job that already has
\* max_instances instances is skipped, any other gets a task on the loop
RECURSIVE SubmitJobs(_, _)
SubmitJobs(due, st) ==
    IF due = <<>> THEN st
    ELSE LET j == Head(due)
             nxt == IF j = "startup_analysis" THEN "none" ELSE "waiting"
             task == [job |-> j, late |-> st.late[j], during |-> st.during[j]]
             st2 == IF st.instances[j] >= MaxInstances
                    THEN [st EXCEPT !.next[j] = nxt, !.dropped = Later(@)]
                    ELSE [st EXCEPT !.next[j] = nxt,
                                    !.instances[j] = @ + 1,
                                    !.ready = Append(@, task)]
         IN  SubmitJobs(Tail(due), st2)

\* the scheduler's wakeup, run by the loop: _process_jobs
process_jobs ==
    /\ sched.started
    /\ LoopFree
    /\ LET due == {j \in JobIds : sched.next[j] = "due"}
       IN  /\ due # {}
           /\ \E order \in Orders(due) : sched' = SubmitJobs(order, sched)
    /\ UNCHANGED schedFrame

\* the loop starts the next task, run_coroutine_job: a run time later than
\* misfire_grace_time is reported missed, any other awaits run_analysis_job
job_begin ==
    /\ LoopFree
    /\ sched.ready # <<>>
    /\ LET task == Head(sched.ready)
       IN  IF task.late > MisfireGraceTime
           THEN sched' = [sched EXCEPT !.ready = Tail(@),
                                       !.instances[task.job] = @ - 1,
                                       !.dropped = Later(@)]
           ELSE sched' = [sched EXCEPT !.ready = Tail(@),
                                       !.executing = Append(@, task),
                                       !.began_during = @ \/ task.during]
    /\ UNCHANGED schedFrame

\* run_analysis_job returns (db.close()); the task's done callback releases
\* the job's instance
job_end ==
    /\ \E i \in DOMAIN sched.executing :
        LET task == sched.executing[i]
        IN  sched' = [sched EXCEPT
                !.executing = SubSeq(@, 1, i - 1) \o SubSeq(@, i + 1, Len(@)),
                !.instances[task.job] = @ - 1]
    /\ UNCHANGED schedFrame

(***************************************************************************)
(* Specifications                                                          *)
(***************************************************************************)

\* sequential use of one RateLimiter, any configuration
InitRL ==
    /\ \E mr \in 0..MaxRequestsCfg, tw \in 0..MaxWindowCfg : RateLimiterInit(mr, tw)
    /\ CacheInit(DefaultTtl)
    /\ PipeInit(Symbols, SessionAutoflush)

NextRL == Tick \/ wait_if_needed \/ get_stats

SpecRL == InitRL /\ [][NextRL]_vars

\* the shared RateLimiter under interleaved callers
InitRLConc ==
    /\ \E mr \in 1..MaxRequestsCfg, tw \in 1..MaxWindowCfg : RateLimiterInit(mr, tw)
    /\ CacheInit(DefaultTtl)
    /\ PipeInit(Symbols, SessionAutoflush)

NextRLConc ==
    \/ Tick
    \/ \E p \in Callers :
        \/ rl_enter(p)
        \/ rl_test(p, "test1", "pop1", "check")
        \/ rl_pop(p, "pop1", "test1")
        \/ rl_check(p)
        \/ rl_calc(p)
        \/ rl_wakeup(p)
        \/ rl_test(p, "test2", "pop2", "append")
        \/ rl_pop(p, "pop2", "test2")
        \/ rl_append(p)

SpecRLConc == InitRLConc /\ [][NextRLConc]_vars

\* the ArticleAnalysisCache, any ttl
InitCache ==
    /\ RateLimiterInit(DefaultMaxRequests, DefaultTimeWindow)
    /\ \E t \in 1..MaxTtlCfg : CacheInit(t)
    /\ PipeInit(Symbols, SessionAutoflush)

NextCache ==
    \/ Tick
    \/ \E symbol \in CacheSymbols, title \in CacheTitles : cache_get(symbol, title)
    \/ \E symbol \in CacheSymbols, title \in CacheTitles, v \in CacheValues :
            cache_set(symbol, title, v)
    \/ cache_clear

SpecCache == InitCache /\ [][NextCache]_vars

\* the cache called by two request threads, their steps interleaved
NextCacheConc ==
    \/ Tick
    \/ \E t \in Threads, symbol \in CacheSymbols, title \in CacheTitles :
            thr_get_contains(t, symbol, title)
    \/ \E t \in Threads : thr_get_read(t)
    \/ \E t \in Threads : thr_get_test(t)
    \/ \E t \in Threads : thr_get_del(t)
    \/ \E t \in Threads, symbol \in CacheSymbols, title \in CacheTitles, v \in CacheValues :
            thr_set(t, symbol, title, v)

SpecCacheConc == InitCache /\ [][NextCacheConc]_vars

\* the background run, the interactive requests and the passing of days
Init ==
    /\ RateLimiterInit(DefaultMaxRequests, DefaultTimeWindow)
    /\ CacheInit(DefaultTtl)
    /\ \E wl \in {{}, {"HPG"}, Symbols} : PipeInit(wl, SessionAutoflush)

Next ==
    \/ NextDay
    \/ run_analysis_job
    \/ next_symbol
    \/ admit("admit_news", "fetch_news")
    \/ fetch_news
    \/ admit("admit_context", "context")
    \/ get_market_context
    \/ analyze_and_store_article
    \/ detect_signals
    \/ update_weekly_summary
    \/ \E symbol \in Symbols : analyze_stock(symbol)
    \/ \E signal_id \in SignalIds : mark_signal_read(signal_id)

Spec == Init /\ [][Next]_vars

\* legacy_api.py lines 73-178: analyze_stock_stream(symbol). An event is its
\* type and, for the two article events, the index of the news item
Event(type, index) == [type |-> type, index |-> index]

\* lines 104-150: the events of the loop for the items idx, idx + 1, ... of the
\* news list. The try of lines 105-137 covers the whole item: a missing title
\* raises at title[:50] while the status event is built, a page that cannot
\* be read raises after it; analyze_single_article returns {} when the
\* classifier fails and raises nothing
RECURSIVE ArticleEvents(_, _)
ArticleEvents(news_list, idx) ==
    IF idx > Len(news_list) THEN <<>>
    ELSE LET news == news_list[idx]
             rest == ArticleEvents(news_list, idx + 1)
         IN  IF news.link = None THEN rest                      \* `continue`
             ELSE IF news.title = None
             THEN <<Event("article_error", idx - 1)>> \o rest
             ELSE IF ~news.scrape_ok
             THEN <<Event("status", 0), Event("article_error", idx - 1)>> \o rest
             ELSE <<Event("status", 0), Event("article_analyzed", idx - 1)>> \o rest

\* the events of one call, c its inputs: the news list, or news_ok FALSE when
\* get_company_news raises (its lookup of today's rows is outside its try).
\* get_market_context and summarize_market_news catch their own exceptions
\* and return a placeholder, and a response without 'data' is an empty list
StreamEvents(c) ==
    <<Event("status", 0), Event("progress", 1), Event("status", 0)>> \o
    (IF ~c.news_ok THEN <<Event("error", 0)>>
     ELSE <<Event("progress", 2)>> \o ArticleEvents(c.news, 1) \o
          <<Event("progress", 4), Event("summary_generated", 0), Event("complete", 0)>>)

\* the generator runs up to its next yield, or to its end after the last one
analyze_stock_stream ==
    /\ stream.state = "called"
    /\ LET all == StreamEvents(stream)
           n == Len(stream.events)
       IN  stream' = IF n < Len(all)
                     THEN [stream EXCEPT !.events = Append(@, all[n + 1])]
                     ELSE [stream EXCEPT !.state = "ended"]
    /\ UNCHANGED <<rlVars, cacheVars, dt_now, watchlist, news_call, signal_resp, articles,
                   signals, summaries, db_session, autoflush, run, histVars, sched>>

\* the items a news list given to the stream is made of
StreamItems == {ItemA, ItemNoLink, ItemNoScrape, ItemNoAnalysis, ItemNoTitle}

InitStream ==
    /\ RateLimiterInit(DefaultMaxRequests, DefaultTimeWindow)
    /\ CacheInit(DefaultTtl)
    /\ \E nw \in BOOLEAN, n \in 0..MaxStreamItems : \E list \in [1..n -> StreamItems] :
          stream = [state |-> "called", news_ok |-> nw, news |-> list, events |-> <<>>]
    /\ news_call = NoNewsCall
    /\ signal_resp = NoSignalResponse
    /\ dt_now = 0
    /\ watchlist = Symbols
    /\ autoflush = SessionAutoflush
    /\ articles = {}
    /\ signals = {}
    /\ summaries = {}
    /\ db_session = "closed"
    /\ run = [pc |-> "idle", todo |-> <<>>, new_articles |-> <<>>]
    /\ upstream = [who \in Callers |-> {}]
    /\ tokens = 0
    /\ classified = [k \in Symbols \X (Titles \cup {None}) |-> 0]
    /\ pass = NoPass
    /\ prev_news = [sym \in Symbols |-> NoList]
    /\ steps = 0
    /\ sched = NotStarted

NextStream == analyze_stock_stream

SpecStream == InitStream /\ [][NextStream]_vars

\* analyze_single_article called over time by the routes (use_cache True) and
\* by the background run (use_cache False), any ttl
AnalysisOutcomes ==
    {Analysis("True", "Bullish", 8), Analysis("False", "Bearish", 2), EmptyAnalysis}

NextAnalyze ==
    \/ Tick
    \/ \E use_cache \in BOOLEAN, title \in {TDividend, TPlain}, outcome \in AnalysisOutcomes :
          analyze_single_article(use_cache, "HPG", title, outcome)

SpecAnalyze == InitCache /\ [][NextAnalyze]_vars

\* the statements of a run once run_analysis_job has begun
RunSteps ==
    \/ next_symbol
    \/ admit("admit_news", "fetch_news")
    \/ fetch_news
    \/ admit("admit_context", "context")
    \/ get_market_context
    \/ analyze_and_store_article
    \/ detect_signals
    \/ update_weekly_summary

\* a run is started only when the passes of all its symbols are within MaxSteps
start_run ==
    /\ steps + Cardinality(watchlist) <= MaxSteps
    /\ run_analysis_job

NextRun ==
    \/ NextDay
    \/ start_run
    \/ RunSteps

\* the background runs on their own. A run is one coroutine without a
\* suspension point whose calls return or raise: once begun, its next
\* statement is eventually executed
SpecRun == Init /\ [][NextRun]_vars /\ WF_vars(RunSteps)

\* the server is told to stop (uvicorn takes the signal and will leave the
\* lifespan context of main.py): this may happen at any statement of a run
request_shutdown ==
    /\ sched.shutdown = "no"
    /\ sched' = [sched EXCEPT !.shutdown = "requested", !.shutdown_at = run.pc]
    /\ UNCHANGED schedFrame

\* main.py line 24, workers/__init__.py lines 70-74: the lifespan's shutdown
\* code calls scheduler.shutdown(). It is run by the event loop, which a run
\* under way holds until run_analysis_job returns: the run has no suspension
\* point and its loop over the symbols tests no flag
stop_scheduler ==
    /\ sched.shutdown = "requested"
    /\ run.pc = "idle"
    /\ sched' = [sched EXCEPT !.shutdown = "done", !.started = FALSE]
    /\ UNCHANGED schedFrame

NextShutdown ==
    \/ Next
    \/ request_shutdown
    \/ stop_scheduler

\* the pipeline with a shutdown request arriving at any moment
SpecShutdown == Init /\ [][NextShutdown]_vars

\* the server starts on a database an earlier process filled: one relevant
\* article of HPG with its dividend signal, which was marked read or not
StoredSignal(is_read) ==
    [id |-> 1, symbol |-> "HPG", signal_type |-> "dividend_announced",
     priority |-> "high", article_id |-> 1, detected_at |-> 0,
     expires_at |-> 30, is_read |-> is_read]

InitSignals ==
    /\ RateLimiterInit(DefaultMaxRequests, DefaultTimeWindow)
    /\ CacheInit(DefaultTtl)
    /\ dt_now = 0
    /\ watchlist = {"HPG"}
    /\ news_call = NoNewsCall
    /\ signal_resp = NoSignalResponse
    /\ stream = NoStream
    /\ autoflush = SessionAutoflush
    /\ articles = {ArticleRow(1, "HPG", ItemA, ItemA.analysis)}
    /\ \E is_read \in BOOLEAN : signals = {StoredSignal(is_read)}
    /\ summaries = {}
    /\ db_session = "closed"
    /\ run = [pc |-> "idle", todo |-> <<>>, new_articles |-> <<>>]
    /\ upstream = [who \in Callers |-> {}]
    /\ tokens = 0
    /\ classified = [k \in Symbols \X (Titles \cup {None}) |-> 0]
    /\ pass = NoPass
    /\ prev_news = [sym \in Symbols |-> NoList]
    /\ steps = 0
    /\ sched = NotStarted

SpecSignals == InitSignals /\ [][Next]_vars

\* the scheduler and the executions of run_analysis_job it starts
InitSched ==
    /\ RateLimiterInit(DefaultMaxRequests, DefaultTimeWindow)
    /\ CacheInit(DefaultTtl)
    /\ PipeInit(Symbols, SessionAutoflush)

NextSched ==
    \/ start_scheduler
    \/ trigger_periodic
    \/ sched_tick
    \/ process_jobs
    \/ job_begin
    \/ job_end

SpecSched == InitSched /\ [][NextSched]_vars

\* detect_signals on its own, over any storage of up to MaxScanned rows of one
\* symbol: the classifier results a row can carry, around the rules' thresholds
ScoreSamples == 5..8
ScannedChoices ==
    [symbol : {"HPG"}, title : Titles \cup {TCoTuc}, published_at : {0},
     is_relevant : {"True"}, sentiment : {"Bullish", "Bearish"}, score : ScoreSamples]
    \cup {\* rows the query of lines 237-241 leaves out: not relevant, no
          \* relevance value, published two days before, of another symbol
          [symbol |-> "HPG", title |-> TDividend, published_at |-> 0,
           is_relevant |-> "False", sentiment |-> "Bullish", score |-> 8],
          [symbol |-> "HPG", title |-> TEarnings, published_at |-> 0,
           is_relevant |-> None, sentiment |-> "Bullish", score |-> 8],
          [symbol |-> "HPG", title |-> TCoTuc, published_at |-> 0 - 1,
           is_relevant |-> "True", sentiment |-> "Bullish", score |-> 8],
          [symbol |-> "VNM", title |-> TDividend, published_at |-> 0,
           is_relevant |-> "True", sentiment |-> "Bullish", score |-> 8]}

ScannedRow(id, c) ==
    [id |-> id, symbol |-> c.symbol, title |-> c.title, link |-> "l1",
     published_at |-> c.published_at, is_relevant |-> c.is_relevant,
     sentiment |-> c.sentiment, score |-> c.score, has_analysis |-> TRUE]

\* a signal an earlier pass attached to the first row
EarlierSignal ==
    [id |-> 1, symbol |-> "HPG", signal_type |-> "major_contract",
     priority |-> "medium", article_id |-> 1, detected_at |-> 0,
     expires_at |-> 14, is_read |-> FALSE]

InitDetect ==
    /\ RateLimiterInit(DefaultMaxRequests, DefaultTimeWindow)
    /\ CacheInit(DefaultTtl)
    /\ dt_now \in 0..MaxDay
    /\ watchlist = {"HPG"}
    /\ news_call = NoNewsCall
    /\ signal_resp = NoSignalResponse
    /\ stream = NoStream
    /\ autoflush = SessionAutoflush
    /\ \E n \in 0..MaxScanned : \E f \in [1..n -> ScannedChoices] :
          /\ \A i, j \in 1..n : f[i].title = f[j].title => i = j
          /\ articles = {ScannedRow(i, f[i]) : i \in 1..n}
          /\ signals \in IF n > 0 /\ f[1].symbol = "HPG"
                          THEN {{}, {EarlierSignal}} ELSE {{}}
    /\ summaries = {}
    /\ db_session = "ok"
    /\ run = [pc |-> "signals", todo |-> <<"HPG">>, new_articles |-> <<>>]
    /\ upstream = [who \in Callers |-> {}]
    /\ tokens = 0
    /\ classified = [k \in Symbols \X (Titles \cup {None}) |-> 0]
    /\ pass = [NoPass EXCEPT !.symbol = "HPG", !.outcome = "running"]
    /\ prev_news = [sym \in Symbols |-> NoList]
    /\ steps = 1
    /\ sched = NotStarted

NextDetect == detect_signals

SpecDetect == InitDetect /\ [][NextDetect]_vars

\* get_company_news on its own: any symbol, fallback setting and outcomes of
\* the news cache, the primary provider and Google News RSS
InitNews ==
    /\ RateLimiterInit(DefaultMaxRequests, DefaultTimeWindow)
    /\ CacheInit(DefaultTtl)
    /\ \E symbol \in NewsSymbols, fb \in BOOLEAN, cached, primary, rss \in Outcomes :
          news_call = [NoNewsCall EXCEPT !.state = "called", !.symbol = symbol,
                          !.fallback = fb, !.cached = cached, !.primary = primary,
                          !.rss = rss]
    /\ signal_resp = NoSignalResponse
    /\ stream = NoStream
    /\ dt_now = 0
    /\ watchlist = Symbols
    /\ autoflush = SessionAutoflush
    /\ articles = {}
    /\ signals = {}
    /\ summaries = {}
    /\ db_session = "closed"
    /\ run = [pc |-> "idle", todo |-> <<>>, new_articles |-> <<>>]
    /\ upstream = [who \in Callers |-> {}]
    /\ tokens = 0
    /\ classified = [k \in Symbols \X (Titles \cup {None}) |-> 0]
    /\ pass = NoPass
    /\ prev_news = [sym \in Symbols |-> NoList]
    /\ steps = 0
    /\ sched = NotStarted

NextNews == get_company_news

SpecNews == InitNews /\ [][NextNews]_vars

\* update_weekly_summary on its own, over any storage of up to MaxWeekRows rows
\* of one symbol: published on the Monday of the week of day 0, classified or
\* not, or classified and published on the Sunday before that week, on its
\* Sunday or on the Monday after
TReview == "quarterly review"
WeekTitles == <<TDividend, TEarnings, TPlain, TCoTuc, TReview>>
WeekAnalyses ==
    {Analysis("True", "Bullish", 8), Analysis("False", "Bearish", 2),
     Analysis("False", "Neutral", 5), EmptyAnalysis}
PublishedSamples == {0 - 1, 6, 7}
WeekChoices ==
    (WeekAnalyses \X {0}) \cup ({Analysis("True", "Bullish", 8)} \X PublishedSamples)

WeekRow(id, analysis, published) ==
    [ArticleRow(id, "HPG", Item(WeekTitles[id], "l1", 0, TRUE, analysis), analysis)
        EXCEPT !.published_at = published]

\* the summary an earlier pass wrote from the week's three oldest rows
EarlierSummary(rows) ==
    LET week == {r \in rows : r.published_at >= 0 /\ r.published_at <= 6}
        oldest == {r \in week : Cardinality({q \in week : q.id < r.id}) < MinWeeklyArticles}
    IN  IF Cardinality(week) < MinWeeklyArticles THEN {{}}
        ELSE {{}, {WeeklyRow(1, "HPG", 0, oldest, "Stable", 0)}}

InitWeekly ==
    /\ RateLimiterInit(DefaultMaxRequests, DefaultTimeWindow)
    /\ CacheInit(DefaultTtl)
    /\ dt_now \in 0..MaxDay
    /\ watchlist = {"HPG"}
    /\ news_call = NoNewsCall
    /\ signal_resp = NoSignalResponse
    /\ stream = NoStream
    /\ autoflush = SessionAutoflush
    /\ \E n \in 0..MaxWeekRows : \E f \in [1..n -> WeekChoices] :
          /\ articles = {WeekRow(i, f[i][1], f[i][2]) : i \in 1..n}
          /\ summaries \in EarlierSummary({WeekRow(i, f[i][1], f[i][2]) : i \in 1..n})
    /\ signals = {}
    /\ db_session = "ok"
    /\ run = [pc |-> "weekly", todo |-> <<"HPG">>, new_articles |-> <<>>]
    /\ upstream = [who \in Callers |-> {}]
    /\ tokens = 0
    /\ classified = [k \in Symbols \X (Titles \cup {None}) |-> 0]
    /\ pass = [NoPass EXCEPT !.symbol = "HPG", !.outcome = "running"]
    /\ prev_news = [sym \in Symbols |-> NoList]
    /\ steps = 1
    /\ sched = NotStarted

NextWeekly == update_weekly_summary

SpecWeekly == InitWeekly /\ [][NextWeekly]_vars

(***************************************************************************)
(* Claims about the RateLimiter                                            *)
(***************************************************************************)

\* the recorded admissions with a timestamp in [a, a + time_window]
InWindow(a) == {i \in 1..Len(rl_log) : a <= rl_log[i] /\ rl_log[i] <= a + time_window}

\* C1: under sequential wait_if_needed() calls at non-decreasing clock times,
\* no interval of time_window seconds holds more than max_requests recorded
\* admission timestamps.
C1_SlidingWindow ==
    \A a \in 0..MaxClock : Cardinality(InWindow(a)) <= max_requests

\* C1 witness: more calls were admitted than max_requests, the last after a wait.
C1_Witness ==
    /\ max_requests >= 1
    /\ Len(rl_log) > max_requests
    /\ rl_last.blocked

\* C2: with interleaved callers no window of time_window seconds holds more
\* than max_requests recorded admissions, no caller fails and every call that
\* has returned is recorded exactly once.
C2_ConcurrentSlidingWindow ==
    /\ \A a \in 0..MaxClock : Cardinality(InWindow(a)) <= max_requests
    /\ \A p \in Callers : rl_pc[p] # "IndexError"
    /\ Len(rl_log) = rl_calls - Cardinality({p \in Callers : rl_pc[p] # "idle"})

\* C3: a call returns without blocking iff fewer than max_requests timestamps
\* remain after eviction; otherwise it sleeps time_window - (now - oldest) +
\* safety margin, evicts again at the time it resumes, and only then records.
C3_BlockingRule ==
    (rl_last.outcome = "returned") =>
        /\ rl_last.blocked <=> rl_last.remaining >= max_requests
        /\ rl_last.blocked =>
            /\ rl_last.wait = time_window - (rl_last.now - rl_last.oldest) + SafetyMargin
            /\ rl_last.resumed >= rl_last.now + rl_last.wait
            /\ rl_last.resumed >= rl_last.oldest + time_window + SafetyMargin
            /\ \A i \in 1..Len(requests) : requests[i] >= rl_last.resumed - time_window
        /\ ~rl_last.blocked =>
            /\ rl_last.resumed = rl_last.now
            /\ rl_last.recorded <= rl_last.now + MaxLag
        /\ rl_last.recorded >= rl_last.resumed
        /\ requests # <<>> /\ requests[Len(requests)] = rl_last.recorded

\* C3 witness: max_requests = 2; the calls at t=0 and t=1 returned at once, the
\* call issued at t=2 slept until the oldest admission left the window.
C3_Witness ==
    /\ max_requests = 2
    /\ Len(rl_log) = 3 /\ rl_log[1] = 0 /\ rl_log[2] = 1
    /\ rl_last.now = 2 /\ rl_last.blocked
    /\ rl_last.oldest = 0
    /\ rl_last.resumed = time_window + SafetyMargin

\* C4 as stated: whatever the configuration, no call raises and every call
\* records exactly one admission.
C4_NeverRaisesAnyConfig ==
    /\ rl_last.outcome # "IndexError"
    /\ Len(rl_log) = rl_calls

\* C4 amended: with max_requests >= 1, no call raises, every call records
\* exactly one admission, and a call that blocks sleeps a bounded time.
C4_NeverRaises ==
    max_requests >= 1 =>
        /\ rl_last.outcome # "IndexError"
        /\ Len(rl_log) = rl_calls
        /\ rl_last.blocked =>
                rl_last.wait <= time_window + SafetyMargin

\* C4 witness: every call of the budget has returned, the last one after a sleep.
C4_Witness ==
    /\ max_requests >= 1
    /\ rl_calls = MaxCalls
    /\ Len(rl_log) = MaxCalls
    /\ rl_last.blocked

(***************************************************************************)
(* Claims about the ArticleAnalysisCache                                   *)
(***************************************************************************)

\* the i-th cache call is a get that directly follows a set of the same
\* (symbol, title)
GetAfterSet(i) ==
    /\ i >= 2 /\ i <= Len(cache_ops)
    /\ cache_ops[i].op = "get" /\ cache_ops[i - 1].op = "set"
    /\ cache_ops[i].symbol = cache_ops[i - 1].symbol
    /\ cache_ops[i].title = cache_ops[i - 1].title

\* C6: set(k, v) followed by get(k) less than ttl later returns v; a get(k)
\* ttl or more after the set returns absent, and the entry then no longer
\* counts toward size().
C6_CacheTtl ==
    \A i \in 1..Len(cache_ops) :
        GetAfterSet(i) =>
            IF cache_ops[i].at - cache_ops[i - 1].at < ttl
            THEN /\ cache_ops[i].result = cache_ops[i - 1].value
                 /\ cache_ops[i].size = cache_ops[i - 1].size
            ELSE /\ cache_ops[i].result = None
                 /\ cache_ops[i].size = cache_ops[i - 1].size - 1

\* C6 witness: with another entry in the cache, a value set earlier was read
\* exactly ttl seconds after its set: the read found it absent and dropped it.
C6_Witness ==
    /\ GetAfterSet(2)
    /\ cache_ops[2].at - cache_ops[1].at = ttl
    /\ cache_ops[2].result = None
    /\ cache_ops[1].size = 2 /\ cache_ops[2].size = 1

\* C6 witness, the fresh case: a value was read back less than ttl after its set,
\* time having passed in between.
C6_WitnessFresh ==
    /\ GetAfterSet(2)
    /\ cache_ops[2].at > cache_ops[1].at
    /\ cache_ops[2].at - cache_ops[1].at < ttl
    /\ cache_ops[2].result = cache_ops[1].value

(***************************************************************************)
(* Claims about upstream admission and article ingestion                   *)
(***************************************************************************)

\* C5: every call toward the upstream market-data source, by the background
\* run or by the interactive analysis, is preceded by an admission on the
\* shared rate limiter
C5_EveryUpstreamCallAdmitted ==
    \A who \in Callers : "unadmitted" \notin upstream[who]

\* C7: a pass of a symbol over the news list its previous pass was given (same
\* collaborator outcomes) inserts no AnalyzedArticle row
C7_SecondPassInsertsNothing ==
    pass.same_as_prev => pass.inserted = 0

\* C8: the same article is never processed twice: the classifier is invoked
\* at most once per (symbol, title) by the background runs and at most one
\* AnalyzedArticle row exists per (symbol, title)
C8_NeverProcessedTwice ==
    /\ \A k \in DOMAIN classified : classified[k] <= 1
    /\ \A r1, r2 \in articles :
            (r1.symbol = r2.symbol /\ r1.title = r2.title) => r1 = r2

\* C9: no two AnalyzedArticle rows share the same (symbol, title, published_at)
C9_UniqueNaturalKey ==
    \A r1, r2 \in articles :
        (/\ r1.symbol = r2.symbol
         /\ r1.title = r2.title
         /\ r1.published_at = r2.published_at) => r1 = r2

\* a row whose published date could not be parsed sits beside an earlier row
\* of the same symbol and title, and a colliding insert has been rejected
C9_Witness ==
    /\ \E r1, r2 \in articles : /\ r1.symbol = r2.symbol
                                /\ r1.title = r2.title
                                /\ r1.link = ItemA.link
                                /\ r2.link = ItemA2.link
    /\ pass.outcome = "IntegrityError"

\* C10: once an AnalyzedArticle row exists, no step of the system changes any
\* of its fields or deletes it
C10_RowsNeverChange ==
    [][\A r \in articles : r \in articles']_vars

\* rows were created by a pass that went on to detect signals and write a
\* weekly summary, and a later pass of the same symbol went over the same news
C10_Witness ==
    /\ articles # {}
    /\ signals # {}
    /\ summaries # {}
    /\ pass.same_as_prev
    /\ pass.outcome = "no new articles"

(***************************************************************************)
(* Claims about failures inside a run                                      *)
(***************************************************************************)

\* C11: when the classifier fails for an article no row is persisted for it,
\* so every persisted AnalyzedArticle carries a classifier result: a sentiment
\* in {Bullish, Bearish, Neutral} and a score in 1..10
C11_EveryRowClassified ==
    \A r \in articles : /\ r.has_analysis
                        /\ r.sentiment \in {"Bullish", "Bearish", "Neutral"}
                        /\ r.score \in 1..10

\* C12: a natural-key collision on the insert of an AnalyzedArticle is a
\* no-op: no error escapes the article's processing, so no pass is ended by
\* it and the Session stays usable
C12_CollisionIsNoError ==
    /\ pass.outcome # "IntegrityError"
    /\ db_session # "needs_rollback"

\* C13: a symbol whose pass failed never keeps a later symbol of the same run
\* from being processed: no pass is ended by the failure a previous pass left
\* behind in the run's Session
C13_FailureStaysInItsPass ==
    pass.outcome # "PendingRollbackError"

(***************************************************************************)
(* Claims about the scheduler                                              *)
(***************************************************************************)

\* C14: at most one execution of the analysis job is under way at any time,
\* whichever of the two jobs started it
C14_SingleFlight ==
    Len(sched.executing) <= 1

\* the startup job's run is under way and the periodic job has come due
C14_Witness ==
    /\ Len(sched.executing) = 1
    /\ sched.executing[1].job = "startup_analysis"
    /\ sched.next["news_analysis_periodic"] = "due"

\* C15: a trigger that fires while a run is under way starts no run, neither
\* at once nor after that run has returned
C15_TriggerDuringRunDropped ==
    ~sched.began_during


\* the table of the Signal Detector: per signal type its keywords, its gate,
\* its priority and the days until it expires
C16_Types == <<"dividend_announced", "earnings_beat", "major_contract">>

C16_Matches(a, i) ==
    KeywordsIn(a.title) \cap
        (CASE i = 1 -> {"co tuc", "dividend", "phan phoi", "chia co"}
           [] i = 2 -> {"doanh thu", "loi nhuan", "ket qua kinh doanh", "earnings"}
           [] i = 3 -> {"hop dong", "du an", "contract", "partnership"}) # {}

C16_Gate(a, i) ==
    IF i = 1 THEN a.score >= 6 ELSE a.sentiment = "Bullish" /\ a.score >= 7

C16_AsSpecified(sg, a, i) ==
    /\ sg.symbol = a.symbol
    /\ sg.priority = (CASE i = 1 -> IF a.score >= 8 THEN "high" ELSE "medium"
                        [] i = 2 -> "high"
                        [] i = 3 -> "medium")
    /\ sg.expires_at = sg.detected_at + (CASE i = 1 -> 30 [] i = 2 -> 7 [] i = 3 -> 14)

\* the rows a detect_signals step scans that have no signal before the step
C16_ScannedFresh ==
    {a \in articles : /\ a.symbol = pass.symbol
                      /\ a.published_at >= dt_now - 1
                      /\ a.is_relevant = "True"
                      /\ ~\E sg \in signals : sg.article_id = a.id}

C16_Created(a, i) ==
    {sg \in signals' \ signals : sg.article_id = a.id /\ sg.signal_type = C16_Types[i]}

C16_DetectStep == run.pc = "signals" /\ run'.pc = "weekly"

\* C16 as worded: for every scanned article with no signal for its id, a
\* detector step creates a signal of a type iff the lower-cased title has one
\* of the type's keywords and the type's gate holds, with the type's priority
\* and expiry
C16_SignalIffKeywordAndGate ==
    [][C16_DetectStep =>
         \A a \in C16_ScannedFresh : \A i \in 1..3 :
            /\ C16_Created(a, i) # {} <=> (C16_Matches(a, i) /\ C16_Gate(a, i))
            /\ \A sg \in C16_Created(a, i) : C16_AsSpecified(sg, a, i)]_vars

\* C16: for every scanned article with no signal for its id, a detector step
\* creates a signal of a type, exactly one, with the type's priority and
\* expiry, iff the lower-cased title has one of the type's keywords, the
\* type's gate holds and no type earlier in the order dividend_announced,
\* earnings_beat, major_contract has its keyword and gate satisfied by the
\* article
C16_SignalIffFirstRuleThatHolds ==
    [][C16_DetectStep =>
         \A a \in C16_ScannedFresh : \A i \in 1..3 :
            /\ C16_Created(a, i) # {} <=>
                  /\ C16_Matches(a, i) /\ C16_Gate(a, i)
                  /\ \A j \in 1..(i - 1) : ~(C16_Matches(a, j) /\ C16_Gate(a, j))
            /\ Cardinality(C16_Created(a, i)) <= 1
            /\ \A sg \in C16_Created(a, i) : C16_AsSpecified(sg, a, i)]_vars

\* the detector has run over a row titled with "co tuc" and scored 8, which now
\* carries one signal, dividend_announced/high expiring 30 days after its
\* detection, and over a Bullish row scored 7 or more whose title has an
\* earnings and a contract keyword, which carries an earnings_beat signal
C16_Witness ==
    /\ run.pc = "weekly"
    /\ \E a \in articles :
          /\ a.title = TCoTuc /\ a.score = 8
          /\ \E sg \in signals :
                /\ sg.article_id = a.id
                /\ sg.signal_type = "dividend_announced" /\ sg.priority = "high"
                /\ sg.detected_at = dt_now /\ sg.expires_at = dt_now + 30
                /\ \A other \in signals : other.article_id = a.id => other = sg
    /\ \E b \in articles :
          /\ b.title = TEarnings /\ b.sentiment = "Bullish" /\ b.score >= 7
          /\ \E sg \in signals :
                /\ sg.article_id = b.id /\ sg.signal_type = "earnings_beat"
                /\ sg.detected_at = dt_now

\* C17: in every reachable state at most one Signal row exists per article_id,
\* whatever the signal types and however many detector passes have run, also
\* for an article whose title matches two rules within one pass
C17_OneSignalPerArticle ==
    \A sg1, sg2 \in signals : sg1.article_id = sg2.article_id => sg1 = sg2

\* a second pass of a symbol has inserted one more row and finished, and the
\* first pass's row whose title matches the earnings and the contract rule,
\* scanned in both passes, carries a signal
C17_Witness ==
    /\ steps = 2
    /\ pass.outcome = "done"
    /\ pass.inserted = 1
    /\ \E r \in articles :
          /\ r.symbol = pass.symbol
          /\ r.title = TEarnings
          /\ r.id < Cardinality(articles)
          /\ r.published_at >= dt_now - 1
          /\ \E sg \in signals : sg.article_id = r.id

\* the rows of the pass's symbol published within the week of today, Monday
\* to Sunday
C18_Window ==
    LET monday == dt_now - (dt_now % 7)
    IN  {r \in articles : /\ r.symbol = pass.symbol
                          /\ monday <= r.published_at
                          /\ r.published_at <= monday + 6}

C18_WeeklyStep == run.pc = "weekly" /\ run'.pc = "symbol"

\* C18: the Weekly Aggregator writes no WeeklySummary row when fewer than 3
\* rows of the symbol are published within the week's window, and every row
\* it writes has total_articles >= 3, equal to the number of rows in the
\* window when it was computed
C18_NoSummaryBelowThree ==
    [][C18_WeeklyStep =>
         /\ Cardinality(C18_Window) < 3 => summaries' = summaries
         /\ \A w \in summaries' \ summaries :
               /\ w.total_articles >= 3
               /\ w.total_articles = Cardinality(C18_Window)]_vars

\* the aggregator has just written a summary of 3 articles, one of them
\* published on the week's Sunday, while the symbol has a fourth row published
\* outside the week
C18_Witness ==
    /\ run.pc = "symbol"
    /\ pass.outcome = "done"
    /\ \E w \in summaries :
          /\ w.symbol = pass.symbol
          /\ w.analyzed_at = dt_now
          /\ w.total_articles = 3
          /\ Cardinality({r \in articles : r.symbol = w.symbol}) = 4
          /\ \E r \in articles : r.symbol = w.symbol /\ r.published_at = w.week_end

\* C19: the bullish_count, bearish_count and neutral_count written to a
\* WeeklySummary are the numbers of window articles whose sentiment is
\* Bullish, Bearish and Neutral, also when some window article has no
\* sentiment
C19_CountsBySentiment ==
    [][C18_WeeklyStep =>
         \A w \in summaries' \ summaries :
            /\ w.bullish_count = Cardinality({r \in C18_Window : r.sentiment = "Bullish"})
            /\ w.bearish_count = Cardinality({r \in C18_Window : r.sentiment = "Bearish"})
            /\ w.neutral_count = Cardinality({r \in C18_Window : r.sentiment = "Neutral"})]_vars

\* the sum of the scores of rows that all have one
RECURSIVE C20_Sum(_)
C20_Sum(rows) ==
    IF rows = {} THEN 0
    ELSE LET r == CHOOSE x \in rows : TRUE IN r.score + C20_Sum(rows \ {r})

\* C20: the avg_score written to a WeeklySummary is the mean of the non-null
\* scores of the window articles, their sum divided by the number of window
\* articles that have a score, also when some window article has none
C20_AvgIsMeanOfNonNull ==
    [][C18_WeeklyStep =>
         \A w \in summaries' \ summaries :
            LET scored == {r \in C18_Window : r.has_analysis}
            IN  w.avg_score.num * Cardinality(scored) = C20_Sum(scored) * w.avg_score.den]_vars

C21_UniqueKey ==
    \A w1, w2 \in summaries :
        (w1.symbol = w2.symbol /\ w1.week_start = w2.week_start) => w1 = w2

\* C21: at most one WeeklySummary row exists per (symbol, week_start); when
\* the aggregator writes and a row for the key exists it updates that row in
\* place (same id, new fields, analyzed_at now, no other row touched),
\* otherwise it inserts exactly one new row
C21_UpsertPerWeek ==
    [][/\ C21_UniqueKey'
       /\ (C18_WeeklyStep /\ summaries' # summaries) =>
             LET monday == dt_now - (dt_now % 7)
                 old == {w \in summaries : w.symbol = pass.symbol /\ w.week_start = monday}
                 new == {w \in summaries' : w.symbol = pass.symbol /\ w.week_start = monday}
             IN  /\ Cardinality(new) = 1
                 /\ \A w \in new : w.analyzed_at = dt_now
                 /\ summaries' \ new = summaries \ old
                 /\ IF old # {}
                    THEN {w.id : w \in new} = {w.id : w \in old}
                    ELSE \A w \in new : \A v \in summaries : w.id # v.id]_vars

\* on a Monday the aggregator has updated the week's existing row, written by
\* an earlier pass from three articles, to the four articles the week has now
C21_Witness ==
    /\ pass.aggregated = "updated"
    /\ Cardinality(summaries) = 1
    /\ \E w \in summaries : w.id = 1 /\ w.total_articles = 4 /\ w.analyzed_at = dt_now

\* C22: for any non-empty symbol get_company_news never raises; a result that
\* is not an error has the symbol upper-cased and data as a list, with
\* fallback enabled its status is 'ok' with count = len(data) > 0 or 'no_data'
\* with empty data; Google News RSS is consulted only after the primary
\* provider failed or returned no news; an error result is produced only when
\* every enabled source has failed
C22_NewsNeverRaises ==
    (news_call.state = "done" /\ news_call.symbol # "") =>
        /\ ~news_call.raised
        /\ ~news_call.error =>
              /\ news_call.result_symbol = "HPG"
              /\ news_call.has_data
              /\ news_call.fallback =>
                    \/ news_call.status = "ok" /\ news_call.count = news_call.data
                                               /\ news_call.data > 0
                    \/ news_call.status = "no_data" /\ news_call.data = 0
        /\ news_call.rss_called =>
              /\ news_call.primary_called
              /\ news_call.primary.raised \/ news_call.primary.n = 0
        /\ news_call.error =>
              /\ news_call.primary_called
              /\ news_call.primary.raised \/ news_call.primary.n = 0
              /\ news_call.fallback => (news_call.rss_called /\ news_call.rss.raised)

\* C23 as worded: a single wait_if_needed() call of a limiter with
\* max_requests >= 1 blocks for at most time_window seconds
C23_BlocksAtMostWindow ==
    (max_requests >= 1 /\ rl_last.outcome = "returned" /\ rl_last.blocked) =>
        rl_last.wait <= time_window

\* C23: a single wait_if_needed() call of a limiter with max_requests >= 1
\* sleeps for at most time_window + 1 seconds, and for exactly that long when
\* the oldest admission in the window was recorded at the moment of the call
C23_BlocksAtMostWindowPlusOne ==
    (max_requests >= 1 /\ rl_last.outcome = "returned" /\ rl_last.blocked) =>
        /\ rl_last.wait <= time_window + 1
        /\ rl_last.oldest = rl_last.now => rl_last.wait = time_window + 1

\* a call found the window full with its oldest admission recorded at the
\* very moment of the call and slept time_window + 1 seconds
C23_Witness ==
    /\ max_requests >= 1
    /\ rl_last.outcome = "returned"
    /\ rl_last.blocked
    /\ rl_last.oldest = rl_last.now
    /\ rl_last.wait = time_window + 1

\* what get_stats() should report at the time it was called: the admissions
\* recorded until then with timestamp >= now - time_window
C24_InWindow(st) ==
    {i \in 1..st.seen : rl_log[i] >= st.now - time_window}

\* C24: get_stats() reports requests_in_window = the number of recorded
\* admissions with timestamp >= now - time_window and remaining =
\* max_requests - requests_in_window; after any sequence of sequential
\* wait_if_needed() calls 0 <= requests_in_window <= max_requests, so
\* remaining is never negative; and get_stats() leaves the queue unchanged
C24_StatsOfWindow ==
    [][rl_stats' # rl_stats =>
         /\ requests' = requests
         /\ rl_stats'.requests_in_window = Cardinality(C24_InWindow(rl_stats'))
         /\ rl_stats'.remaining = max_requests - rl_stats'.requests_in_window
         /\ rl_stats'.max_requests = max_requests
         /\ rl_stats'.time_window = time_window
         /\ 0 <= rl_stats'.requests_in_window
         /\ rl_stats'.requests_in_window <= max_requests
         /\ rl_stats'.remaining >= 0]_vars

\* get_stats() was called with the window full, one admission exactly
\* time_window old, and an older admission outside the window: it reports
\* nothing remaining
C24_Witness ==
    /\ rl_stats.called
    /\ max_requests >= 2
    /\ rl_stats.requests_in_window = max_requests
    /\ rl_stats.remaining = 0
    /\ rl_stats.seen > rl_stats.requests_in_window
    /\ \E i \in 1..rl_stats.seen : rl_log[i] = rl_stats.now - time_window

\* C26: a background run neither reads nor writes the Classification Cache:
\* every step of a run, whatever the classifier returns, leaves the cache's
\* entry map as it was
C26_RunLeavesCacheAlone ==
    [][run' # run => cache' = cache]_vars

\* a pass of the run has classified and stored two articles or more and has
\* ended, and the cache has no entry
C26_Witness ==
    /\ pass.outcome = "done"
    /\ pass.inserted >= 2
    /\ \E r \in articles : r.symbol = pass.symbol /\ r.has_analysis
    /\ DOMAIN cache = {}

\* C25: get and set calls made on the shared cache by simultaneous requests
\* never raise, whatever their interleaving; in particular two interleaved
\* get() calls for the same expired key both return absent
C25_ConcurrentCacheNeverRaises ==
    \A t \in Threads : cache_thr[t].last # "KeyError"

\* C27: each article's processing is failure-isolated: whatever happens to
\* one new item (content fetch, classification, missing title, unparsable
\* date, persistence), the pass goes on with the later new items of the symbol
\* in their order and, after the last one, with signal detection
C27_ArticleFailureIsolated ==
    [][run.pc = "article" =>
         /\ run'.new_articles = Tail(run.new_articles)
         /\ run'.pc = IF run'.new_articles = <<>> THEN "signals" ELSE "article"
         /\ pass'.outcome = "running"]_vars

\* sub lists elements of full in the order they have in full
RECURSIVE C28_InOrder(_, _)
C28_InOrder(sub, full) ==
    IF sub = <<>> THEN TRUE
    ELSE IF full = <<>> THEN FALSE
    ELSE IF Head(sub) = Head(full) THEN C28_InOrder(Tail(sub), Tail(full))
    ELSE C28_InOrder(sub, Tail(full))

\* C28: within a run all work is totally ordered: the run plans each distinct
\* watched symbol exactly once; a pass starts only between passes, for the
\* next planned symbol; while it is under way it stays with that symbol and
\* its end (or failure) takes exactly that symbol off the plan; the run ends
\* only with the plan empty; the new articles of a pass are those of the
\* fetched list in its order and are stored one at a time, first one first
C28_TotalOrder ==
    [][/\ (run.pc = "idle" /\ run'.pc # "idle") =>
             /\ Len(run'.todo) = Cardinality(watchlist)
             /\ {run'.todo[i] : i \in 1..Len(run'.todo)} = watchlist
       /\ (run.pc = "symbol" /\ run'.pc = "idle") => run.todo = <<>>
       /\ (run.pc = "symbol" /\ run'.pc \notin {"symbol", "idle"}) =>
             /\ run.todo # <<>>
             /\ pass'.symbol = Head(run.todo)
             /\ run'.todo = run.todo
       /\ (run.pc \notin {"idle", "symbol"}) =>
             /\ pass'.symbol = pass.symbol
             /\ pass.symbol = Head(run.todo)
             /\ run'.todo = IF run'.pc = "symbol" THEN Tail(run.todo) ELSE run.todo
       /\ (run.pc = "fetch_news" /\ run'.pc = "admit_context") =>
             C28_InOrder(run'.new_articles, pass'.news)
       /\ (run.pc = "article") =>
             /\ Cardinality(articles' \ articles) <= 1
             /\ \A r \in articles' \ articles :
                   /\ r.symbol = pass.symbol
                   /\ r.title = Head(run.new_articles).title
                   /\ \A q \in articles : q.id < r.id
             /\ run'.new_articles \in {Tail(run.new_articles), <<>>}]_vars

\* a run over two watched symbols has finished the pass of the second one,
\* both have stored rows, and the last pass stored two or more in list order
C28_Witness ==
    /\ run.pc = "symbol"
    /\ run.todo = <<>>
    /\ pass.outcome = "done"
    /\ pass.inserted >= 2
    /\ watchlist = Symbols
    /\ \A sym \in Symbols : \E r \in articles : r.symbol = sym



\* the pass is about to download the page of its next new item: the item has a
\* link (line 177) and a title (line 180)
C29_AboutToFetchContent ==
    /\ run.pc = "article"
    /\ run.new_articles # <<>>
    /\ Head(run.new_articles).link # None
    /\ Head(run.new_articles).title # None

\* C29: in a symbol's pass the fetch of the news list is preceded by an
\* admission of the limiter, and the content fetch of each new item is preceded
\* by an admission of its own: an admission is unused whenever the list or a
\* page is about to be fetched, and a pass that fetched pages has recorded at
\* least one admission more than it fetched pages
C29_AdmitBeforeEveryFetch ==
    /\ run.pc = "fetch_news" => tokens > 0
    /\ C29_AboutToFetchContent => tokens > 0
    /\ pass.content_fetches > 0 => pass.admissions >= 1 + pass.content_fetches

\* C30: a pass that does not fail invokes the Signal Detector and then the
\* Weekly Aggregator exactly once each, after the classification stage: the
\* detector runs with no new item left, the aggregator runs after the
\* detector's one call, and a pass that ended without a failure, also one in
\* which the Ingestion Gate found no new item, has had both
C30_DetectThenAggregateOnce ==
    /\ run.pc = "signals" => /\ run.new_articles = <<>>
                             /\ pass.detected = 0
    /\ run.pc = "weekly" => /\ pass.detected = 1
                            /\ pass.aggregated = "no"
    /\ pass.outcome \in {"done", "no new articles"} =>
           /\ pass.detected = 1
           /\ pass.aggregated # "no"

\* C31: the Signal Detector creates signals only for AnalyzedArticle rows of
\* the symbol being processed that are relevant and were published within the
\* 24 hours before the detection: every signal a step creates carries the id
\* and the symbol of such a row, never of a row that is irrelevant, has no
\* relevance value or is older
C31_SignalsOnlyForRecentRelevant ==
    [][\A sg \in signals' \ signals :
          \E a \in articles :
             /\ a.id = sg.article_id
             /\ a.symbol = pass.symbol
             /\ sg.symbol = a.symbol
             /\ a.is_relevant = "True"
             /\ a.published_at >= dt_now - 1]_vars

\* the detector has run over two rows whose titles and scores qualify: one is
\* outside the query (irrelevant, without relevance value, too old or of
\* another symbol) and has no signal, the other has one
C31_Witness ==
    /\ run.pc = "weekly"
    /\ pass.detected = 1
    /\ \E a, b \in articles :
          /\ a.score = 8 /\ a.sentiment = "Bullish" /\ a.title # TPlain
          /\ \/ a.is_relevant # "True"
             \/ a.published_at < dt_now - 1
             \/ a.symbol # pass.symbol
          /\ ~\E sg \in signals : sg.article_id = a.id
          /\ \E sg \in signals : sg.article_id = b.id /\ sg.detected_at = dt_now

\* the signals the rules give the rows a detector step scans, had every write
\* been taken
C32_Qualifying ==
    DetectIn(pass.symbol, ById(RecentArticles(pass.symbol)), {}, autoflush)

\* C32: signal detection is best-effort per article: when the write of the
\* signal of one article fails in a detector step, the other scanned articles
\* are still evaluated and every signal they qualify for is persisted by the
\* step
C32_WriteFailureIsolated ==
    [][(run.pc = "signals" /\ pass'.failed_write # 0) =>
          \A sg \in C32_Qualifying :
             sg.article_id # pass'.failed_write =>
                \E st \in signals' : /\ st.article_id = sg.article_id
                                      /\ st.signal_type = sg.signal_type]_vars

\* C33: no Signal row is ever deleted and the only field of a row that
\* changes is is_read, which goes from false to true only; marking a row read
\* answers 200 and leaves it read, also when it was read already; marking an
\* id no row has answers not-found and changes no row
C33_SignalsOnlyMarkedRead ==
    [][/\ \A sg \in signals :
             \E st \in signals' : /\ st = [sg EXCEPT !.is_read = st.is_read]
                                   /\ sg.is_read => st.is_read
       /\ signal_resp' # signal_resp =>
             LET signal_id == signal_resp'.signal_id
             IN  IF \E sg \in signals : sg.id = signal_id
                 THEN /\ signal_resp'.status = "200"
                      /\ \A st \in signals' : st.id = signal_id => st.is_read
                      /\ \A sg \in signals : sg.id # signal_id => sg \in signals'
                 ELSE /\ signal_resp'.status = "404"
                      /\ signals' = signals]_vars

\* two requests were answered; the second named the id of a stored row,
\* was answered 200 and the row is read
C33_Witness ==
    /\ signal_resp.request = 2
    /\ signal_resp.status = "200"
    /\ \E sg \in signals : sg.id = signal_resp.signal_id /\ sg.is_read
    /\ steps = 2

\* C34: update_weekly_summary writes nothing and does not call the narrative
\* generator when a WeeklySummary row exists for the symbol's current week and
\* today is not Monday; it goes on to the aggregation (the week's articles are
\* counted, and with three or more the narrative is generated and the row
\* written) exactly when today is Monday or the week has no row yet
C34_SkipsUnlessMondayOrNoRow ==
    [][C18_WeeklyStep =>
         LET monday == dt_now - (dt_now % 7)
             has_row == \E w \in summaries : w.symbol = pass.symbol /\ w.week_start = monday
             in_week == {a \in articles : /\ a.symbol = pass.symbol
                                          /\ a.published_at >= monday
                                          /\ a.published_at <= monday + 6}
         IN  IF has_row /\ dt_now % 7 # 0
             THEN /\ summaries' = summaries
                  /\ pass'.narrated = pass.narrated
                  /\ pass'.aggregated = "skipped"
             ELSE /\ pass'.aggregated \in {"too few", "inserted", "updated"}
                  /\ pass'.aggregated = "too few" <=> Cardinality(in_week) < 3
                  /\ pass'.aggregated # "too few" =>
                        /\ pass'.narrated = pass.narrated + 1
                        /\ \E w \in summaries' :
                              /\ w.symbol = pass.symbol /\ w.week_start = monday
                              /\ w.analyzed_at = dt_now]_vars

\* the aggregator was called on a Tuesday for a week that has a row and four
\* articles, one more than the row counts: it wrote nothing
C34_Witness ==
    /\ pass.aggregated = "skipped"
    /\ dt_now % 7 = 1
    /\ \E w \in summaries : /\ w.week_start = 0
                             /\ w.total_articles = 3
                             /\ w.analyzed_at = 0
    /\ Cardinality({a \in articles : a.published_at \in 0..6}) = 4

\* C35: every persisted WeeklySummary has trend_direction in {Improving,
\* Declining, Stable, Volatile}: a failure of the narrative generator writes
\* no row and overwrites none with placeholder fields
C35_TrendDirectionValid ==
    \A w \in summaries :
       w.trend_direction \in {"Improving", "Declining", "Stable", "Volatile"}

\* C36: after a completed pass of a symbol, a WeeklySummary row of the symbol
\* for the current week has total_articles and sentiment counts equal to those
\* of the AnalyzedArticle rows then in the week's window: articles persisted
\* later in the week are reflected in the row by the pass that persisted them
C36_SummaryFollowsWindow ==
    [][C18_WeeklyStep =>
         LET monday == dt_now - (dt_now % 7)
             window == {a \in articles' : /\ a.symbol = pass.symbol
                                          /\ a.published_at >= monday
                                          /\ a.published_at <= monday + 6}
         IN  \A w \in summaries' :
                (w.symbol = pass.symbol /\ w.week_start = monday) =>
                   /\ w.total_articles = Cardinality(window)
                   /\ w.bullish_count =
                         Cardinality({a \in window : a.sentiment = "Bullish"})
                   /\ w.bearish_count =
                         Cardinality({a \in window : a.sentiment = "Bearish"})
                   /\ w.neutral_count =
                         Cardinality({a \in window : a.sentiment = "Neutral"})]_vars

\* C37: on shutdown during a run the symbol under way finishes its current
\* article and the run stops before it starts the next symbol: once shutdown
\* was requested while a run was under way, no symbol pass begins
C37_NoPassAfterShutdown ==
    [][(sched.shutdown # "no" /\ sched.shutdown_at \notin {"none", "idle"}) =>
          ~(run.pc = "symbol" /\ run'.pc = "admit_news")]_vars

\* C38: every background run terminates and returns the orchestrator to Idle
\* with its database session closed, whether or not symbols fail; a run visits
\* a symbol only from its plan, which it shortens by that symbol; a run over an
\* empty watchlist ends at once without any admission or fetch
C38_RunTerminates ==
    /\ (run.pc # "idle") ~> (run.pc = "idle" /\ db_session = "closed")
    /\ [](run.pc = "idle" => db_session \in {"closed"})
    /\ [][(run.pc = "idle" /\ <<run, db_session>>' # <<run, db_session>>) =>
            IF watchlist = {}
            THEN /\ run'.pc = "idle"
                 /\ db_session' = "closed"
                 /\ UNCHANGED <<rl_log, rl_calls, upstream, tokens, pass>>
            ELSE /\ run'.pc = "symbol"
                 /\ Len(run'.todo) = Cardinality(watchlist)
                 /\ {run'.todo[i] : i \in DOMAIN run'.todo} = watchlist]_vars
    /\ [][(run.pc # "idle" /\ run'.pc = "idle") => run.todo = <<>>]_vars

\* a run over two symbols has returned to Idle with the session closed although
\* the pass of its last symbol failed
C38_Witness ==
    /\ run.pc = "idle"
    /\ db_session = "closed"
    /\ steps = 2
    /\ pass.outcome \in {"TypeError", "IntegrityError", "OperationalError",
                          "PendingRollbackError"}

\* an analyze_single_article call has just been made
C39_Called == last_analysis'.n # last_analysis.n

\* the cache key of the call just made, and whether get() would have found a
\* value for it before the call
C39_Key == <<"md5", last_analysis'.symbol \o ":" \o last_analysis'.title>>
C39_Cached == C39_Key \in DOMAIN cache /\ clock - cache[C39_Key].timestamp < ttl

\* a call that succeeds stores its result only when use_cache is true, and a
\* call with use_cache within ttl of a stored result returns it without
\* invoking the classifier
C39_SuccessAndHit ==
    /\ last_analysis'.invoked <=> ~(last_analysis'.use_cache /\ C39_Cached)
    /\ ~last_analysis'.invoked =>
          /\ last_analysis'.returned = cache[C39_Key].data
          /\ ~last_analysis'.returned.empty
          /\ cache' = cache
    /\ (last_analysis'.invoked /\ ~last_analysis'.failed) =>
          IF last_analysis'.use_cache
          THEN /\ DOMAIN cache' = DOMAIN cache \cup {C39_Key}
               /\ cache'[C39_Key] = [data |-> last_analysis'.returned, timestamp |-> clock]
               /\ \A k \in DOMAIN cache \ {C39_Key} : cache'[k] = cache[k]
          ELSE cache' = cache

RECURSIVE C40_ArticleEventsOf(_)
C40_ArticleEventsOf(evs) ==
    IF evs = <<>> THEN <<>>
    ELSE (IF Head(evs).type \in {"article_analyzed", "article_error"} THEN <<Head(evs)>>
          ELSE <<>>) \o C40_ArticleEventsOf(Tail(evs))

\* The positions, in news-list order, of the items that have a link
C40_Linked(news_list) ==
    SelectSeq([i \in 1..Len(news_list) |-> i], LAMBDA i : news_list[i].link # None)

C40_Terminal == {"complete", "error"}

\* An item whose analysis fails: no title, a page that cannot be read, or a
\* classifier that produces no analysis
C40_Fails(news) ==
    news.title = None \/ ~news.scrape_ok \/ news.analysis = EmptyAnalysis

\* C40 (first part): an ended stream has exactly one terminal event, its last
\* one; when that is 'complete', 'summary_generated' is the event before it and
\* the article events are one per linked item, in news-list order
C40_OneTerminalAfterArticles ==
    stream.state = "ended" =>
        LET evs == stream.events
            arts == C40_ArticleEventsOf(evs)
            linked == C40_Linked(stream.news)
        IN  /\ Len(evs) > 0
            /\ evs[Len(evs)].type \in C40_Terminal
            /\ \A i \in 1..(Len(evs) - 1) : evs[i].type \notin C40_Terminal
            /\ evs[Len(evs)].type = "complete" =>
                  /\ evs[Len(evs) - 1].type = "summary_generated"
                  /\ Len(arts) = Len(linked)
                  /\ \A k \in 1..Len(arts) : arts[k].index = linked[k] - 1

\* C40 (second part): in a completed stream, the article event of a linked
\* item whose analysis failed is 'article_error'
C40_FailureEmitsArticleError ==
    (stream.state = "ended" /\ stream.events[Len(stream.events)].type = "complete") =>
        LET arts == C40_ArticleEventsOf(stream.events)
            linked == C40_Linked(stream.news)
        IN  \A k \in 1..Len(linked) :
               (k <= Len(arts) /\ C40_Fails(stream.news[linked[k]])) =>
                   arts[k].type = "article_error"

\* C40: analyze_stock_stream ends with exactly one terminal event, 'complete'
\* after 'summary_generated' and one article event per linked item in list
\* order, or 'error'; a failed article analysis emits 'article_error' and the
\* stream goes on with the next item
C40_StreamProtocol ==
    C40_OneTerminalAfterArticles /\ C40_FailureEmitsArticleError

====
